---------------------------- MODULE Spec2Model ----------------------------
(***************************************************************************)
(* A model of the supertonic text-to-speech engine (crates/core):          *)
(* the inference pipeline TextToSpeech::_infer with its two entry points   *)
(* call and batch, the latent sampler sample_noisy_latent, and the text    *)
(* functions the pipeline runs (preprocess_text, chunk_text, the unicode   *)
(* indexer).                                                               *)
(*                                                                         *)
(* Conventions.                                                            *)
(*  - A string is a sequence of characters; a character is a one-element   *)
(*    TLA+ string ("a", " ", "\n").                                        *)
(*  - An f32 is modelled by an exact non-negative rational [n, d] in       *)
(*    lowest terms; a cast to usize is truncation toward zero.             *)
(*  - An Array3<f32> of shape (B, D, T) is a sequence of B sequences of D  *)
(*    sequences of T values.                                               *)
(*  - The ONNX sessions are a black box: what a session returns is chosen  *)
(*    nondeterministically, within the shape contract of its model.        *)
(***************************************************************************)
EXTENDS Integers, Sequences, FiniteSets, TLC

(***************************************************************************)
(* Bounds of the model.                                                    *)
(***************************************************************************)
\* the engine predicts raw durations k / DurDen seconds, k in 0 .. MaxRawDur
MaxRawDur == 2
\* speed is an integer in 1 .. MaxSpeed
MaxSpeed == 2
\* total_step is in 0 .. MaxSteps
MaxSteps == 2
\* silence_duration is k / DurDen seconds, k in 0 .. MaxSilence
MaxSilence == 1
\* the vocoder returns a flat buffer of 0 .. MaxWavFlat samples
MaxWavFlat == 4
\* the vector estimator returns a tensor filled with a value of 1 .. MaxEstVal
MaxEstVal == 2
\* the random generator starts in one of the states 0 .. MaxSeed
MaxSeed == 1
\* call is given a text of at most MaxParas paragraphs
MaxParas == 3
\* batch is given at most MaxBatch texts
MaxBatch == 2

\* durations and silences are multiples of 1 / DurDen seconds
DurDen == 2
\* sample_noisy_latent on its own is given durations k / DurDen, k in 0 .. MaxLatentDur
MaxLatentDur == 4
\* preprocess_text on its own is given the texts of at most MaxTextLen characters
MaxTextLen == 4
\* load_voice_style is given at most MaxStyles sources, each holding at most
\* MaxStyleVals values per component
MaxStyles == 2
MaxStyleVals == 3
\* sanitize_filename is given the texts of at most MaxNameLen characters
MaxNameLen == 3
\* split_sentences is given the texts made of at most MaxPieces pieces
MaxPieces == 4
\* the plugin is issued at most MaxCommands commands, and a synthesis runs
\* MaxInvocations engine invocations when none fails
MaxCommands == 4
MaxInvocations == 2

(***************************************************************************)
(* Generic helpers.                                                        *)
(***************************************************************************)
Min(a, b) == IF a <= b THEN a ELSE b

Max(a, b) == IF a >= b THEN a ELSE b

RECURSIVE Gcd(_, _)
Gcd(a, b) == IF b = 0 THEN a ELSE Gcd(b, a % b)

RECURSIVE Flatten(_)
Flatten(ss) == IF ss = <<>> THEN <<>> ELSE Head(ss) \o Flatten(Tail(ss))

RECURSIVE SeqMax(_)
\* iter().max().unwrap_or(&0) over usize
SeqMax(s) == IF s = <<>> THEN 0 ELSE Max(Head(s), SeqMax(Tail(s)))

(***************************************************************************)
(* f32 values, as exact rationals in lowest terms.                         *)
(***************************************************************************)
Rat(n, d) == IF n = 0 THEN [n |-> 0, d |-> 1]
             ELSE LET g == Gcd(n, d) IN [n |-> n \div g, d |-> d \div g]

RZero == Rat(0, 1)

RAdd(x, y) == Rat(x.n * y.d + y.n * x.d, x.d * y.d)

RMulInt(x, k) == Rat(x.n * k, x.d)

RDivInt(x, k) == Rat(x.n, x.d * k)

RLe(x, y) == x.n * y.d <= y.n * x.d

\* f32::max
RMax(x, y) == IF RLe(x, y) THEN y ELSE x

\* x as usize: the integer part (x is never negative here)
AsUsize(x) == x.n \div x.d

(***************************************************************************)
(* Characters.  An ASCII character stands for itself, but the grave accent *)
(* (no TLA+ string holds it); the grave accent and the characters outside  *)
(* ASCII are written "U+<code point>".                                     *)
(***************************************************************************)
\* c as usize, for the characters of the model written by code point
NamedCode ==
    ("U+0060" :> 96) @@ ("U+00A9" :> 169) @@ ("U+00AF" :> 175) @@ ("U+00B4" :> 180) @@
    ("U+00E9" :> 233) @@ ("U+00F1" :> 241) @@ ("U+0301" :> 769) @@
    ("U+0303" :> 771) @@ ("U+0304" :> 772) @@ ("U+0308" :> 776) @@
    ("U+2013" :> 8211) @@ ("U+2014" :> 8212) @@ ("U+2018" :> 8216) @@
    ("U+2019" :> 8217) @@ ("U+201C" :> 8220) @@ ("U+201D" :> 8221) @@
    ("U+2026" :> 8230) @@ ("U+2192" :> 8594) @@ ("U+2665" :> 9829) @@
    ("U+3002" :> 12290) @@ ("U+1F600" :> 128512)

\* c as usize, for the ASCII characters of the model
AsciiCode ==
    ("\t" :> 9) @@ ("\n" :> 10) @@ (" " :> 32) @@ ("!" :> 33) @@
    ("\"" :> 34) @@ ("#" :> 35) @@ ("$" :> 36) @@ ("'" :> 39) @@ (")" :> 41) @@
    ("," :> 44) @@ ("-" :> 45) @@ ("." :> 46) @@ ("/" :> 47) @@
    ("1" :> 49) @@ (":" :> 58) @@ (";" :> 59) @@ ("?" :> 63) @@
    ("@" :> 64) @@ ("D" :> 68) @@ ("H" :> 72) @@ ("M" :> 77) @@ ("P" :> 80) @@ ("T" :> 84) @@
    ("W" :> 87) @@ ("[" :> 91) @@
    ("\\" :> 92) @@ ("]" :> 93) @@ ("_" :> 95) @@
    ("a" :> 97) @@ ("b" :> 98) @@ ("c" :> 99) @@ ("d" :> 100) @@ ("e" :> 101) @@
    ("f" :> 102) @@ ("g" :> 103) @@ ("h" :> 104) @@ ("i" :> 105) @@
    ("l" :> 108) @@ ("m" :> 109) @@ ("n" :> 110) @@ ("o" :> 111) @@
    ("p" :> 112) @@ ("r" :> 114) @@ ("s" :> 115) @@ ("t" :> 116) @@
    ("x" :> 120) @@ ("|" :> 124) @@ ("}" :> 125)

CodePoint(c) == IF c \in DOMAIN NamedCode THEN NamedCode[c] ELSE AsciiCode[c]

\* the length of a character's UTF-8 encoding: str::len counts bytes
Utf8Len(c) ==
    LET cp == CodePoint(c)
    IN IF cp < 128 THEN 1 ELSE IF cp < 2048 THEN 2 ELSE IF cp < 65536 THEN 3 ELSE 4

RECURSIVE ByteLen(_)
\* str::len
ByteLen(s) == IF s = <<>> THEN 0 ELSE Utf8Len(Head(s)) + ByteLen(Tail(s))

\* the regex class \s and char::is_whitespace, on the characters of the model
IsWhitespace(c) == c \in {" ", "\n", "\t"}

(***************************************************************************)
(* String helpers (std::str and the regex crate).                          *)
(***************************************************************************)
StartsWith(s, p) == Len(s) >= Len(p) /\ SubSeq(s, 1, Len(p)) = p

EndsWith(s, p) == Len(s) >= Len(p) /\ SubSeq(s, Len(s) - Len(p) + 1, Len(s)) = p

RECURSIVE Contains(_, _)
Contains(s, p) ==
    IF Len(s) < Len(p) THEN FALSE
    ELSE StartsWith(s, p) \/ Contains(Tail(s), p)

RECURSIVE ReplaceAll(_, _, _)
\* str::replace and Regex::replace_all of a literal: the non-overlapping
\* occurrences of from, leftmost first
ReplaceAll(s, from, to) ==
    IF s = <<>> THEN <<>>
    ELSE IF StartsWith(s, from)
         THEN to \o ReplaceAll(SubSeq(s, Len(from) + 1, Len(s)), from, to)
         ELSE <<Head(s)>> \o ReplaceAll(Tail(s), from, to)

RECURSIVE ReplaceEach(_, _)
\* for (from, to) in pairs { text = text.replace(from, to) }
ReplaceEach(s, pairs) ==
    IF pairs = <<>> THEN s
    ELSE ReplaceEach(ReplaceAll(s, pairs[1][1], pairs[1][2]), Tail(pairs))

RECURSIVE ReplaceUntilGone(_, _, _)
\* while text.contains(from) { text = text.replace(from, to) }
ReplaceUntilGone(s, from, to) ==
    IF Contains(s, from) THEN ReplaceUntilGone(ReplaceAll(s, from, to), from, to)
    ELSE s

RemoveChars(s, set) == SelectSeq(s, LAMBDA c : c \notin set)

RECURSIVE TrimStart(_)
TrimStart(s) ==
    IF s # <<>> /\ IsWhitespace(Head(s)) THEN TrimStart(Tail(s)) ELSE s

RECURSIVE TrimEnd(_)
TrimEnd(s) ==
    IF s # <<>> /\ IsWhitespace(s[Len(s)]) THEN TrimEnd(SubSeq(s, 1, Len(s) - 1))
    ELSE s

\* str::trim
Trim(s) == TrimEnd(TrimStart(s))

RECURSIVE CollapseWhitespace(_)
\* Regex \s+ replaced by " "
CollapseWhitespace(s) ==
    IF s = <<>> THEN <<>>
    ELSE IF IsWhitespace(Head(s))
         THEN <<" ">> \o CollapseWhitespace(TrimStart(Tail(s)))
         ELSE <<Head(s)>> \o CollapseWhitespace(Tail(s))

(***************************************************************************)
(* preprocess_text                                                         *)
(***************************************************************************)
\* Unicode compatibility decomposition of one character
NfkdChar(c) ==
    CASE c = "U+00E9" -> <<"e", "U+0301">>
      [] c = "U+00F1" -> <<"n", "U+0303">>
      [] c = "U+00AF" -> <<" ", "U+0304">>
      [] c = "U+00B4" -> <<" ", "U+0301">>
      [] c = "U+2026" -> <<".", ".", ".">>
      [] OTHER -> <<c>>

RECURSIVE Nfkd(_)
\* text.nfkd().collect()
Nfkd(s) == IF s = <<>> THEN <<>> ELSE NfkdChar(Head(s)) \o Nfkd(Tail(s))

\* the characters of the model inside the ranges of emoji_pattern
EmojiChars == {"U+1F600", "U+2665"}

replacements ==
    << << <<"U+2013">>, <<"-">> >>,
       << <<"U+2014">>, <<"-">> >>,
       << <<"U+00AF">>, <<" ">> >>,
       << <<"_">>, <<" ">> >>,
       << <<"U+201C">>, <<"\"">> >>,
       << <<"U+201D">>, <<"\"">> >>,
       << <<"U+2018">>, <<"'">> >>,
       << <<"U+2019">>, <<"'">> >>,
       << <<"U+00B4">>, <<"'">> >>,
       << <<"U+0060">>, <<"'">> >>,
       << <<"[">>, <<" ">> >>,
       << <<"]">>, <<" ">> >>,
       << <<"|">>, <<" ">> >>,
       << <<"/">>, <<" ">> >>,
       << <<"#">>, <<" ">> >>,
       << <<"U+2192">>, <<" ">> >> >>

\* the characters of the model matched by diacritics_pattern
DiacriticChars == {"U+0303", "U+0304", "U+0308"}

special_symbols == {"U+2665", "U+00A9", "\\"}

expr_replacements ==
    << << <<"@">>, <<" ", "a", "t", " ">> >>,
       << <<"e", ".", "g", ".", ",">>,
          <<"f", "o", "r", " ", "e", "x", "a", "m", "p", "l", "e", ",", " ">> >>,
       << <<"i", ".", "e", ".", ",">>,
          <<"t", "h", "a", "t", " ", "i", "s", ",", " ">> >> >>

\* "Fix spacing around punctuation": the seven replace_all calls, in order
spacing_replacements ==
    << << <<" ", ",">>, <<",">> >>,
       << <<" ", ".">>, <<".">> >>,
       << <<" ", "!">>, <<"!">> >>,
       << <<" ", "?">>, <<"?">> >>,
       << <<" ", ";">>, <<";">> >>,
       << <<" ", ":">>, <<":">> >>,
       << <<" ", "'">>, <<"'">> >> >>

\* "Remove duplicate quotes": the three while loops, in order
RemoveDuplicateQuotes(s) ==
    LET s1 == ReplaceUntilGone(s, <<"\"", "\"">>, <<"\"">>)
        s2 == ReplaceUntilGone(s1, <<"'", "'">>, <<"'">>)
    IN ReplaceUntilGone(s2, <<"U+0060", "U+0060">>, <<"U+0060">>)

\* the characters of the model in the class of ends_with_punct
EndPunctChars ==
    {".", "!", "?", ";", ":", ",", "'", "\"", "U+201C", "U+201D", "U+2018",
     "U+2019", ")", "]", "}", "U+2026", "U+3002"}

\* AddPeriod that does not look at the end of the text
AddPeriod_always(s) == IF s # <<>> THEN Append(s, ".") ELSE s

\* "If text doesn't end with punctuation, quotes, or closing brackets, add a period"
AddPeriod(s) ==
    IF s # <<>> /\ s[Len(s)] \notin EndPunctChars THEN Append(s, ".") ELSE s

\* the text before the final period is considered: every step of
\* preprocess_text up to text.trim()
CleanText(text) ==
    LET t1 == Nfkd(text)
        t2 == RemoveChars(t1, EmojiChars)
        t3 == ReplaceEach(t2, replacements)
        t4 == RemoveChars(t3, DiacriticChars)
        t5 == RemoveChars(t4, special_symbols)
        t6 == ReplaceEach(t5, expr_replacements)
        t7 == ReplaceEach(t6, spacing_replacements)
        t8 == RemoveDuplicateQuotes(t7)
    IN Trim(CollapseWhitespace(t8))

preprocess_text(text) == AddPeriod(CleanText(text))

(***************************************************************************)
(* The unicode indexer (UnicodeProcessor) and the masks.                   *)
(***************************************************************************)
text_to_unicode_values(text) == [j \in 1 .. Len(text) |-> CodePoint(text[j])]

\* Option<usize>::None
None == -1

\* the last valid position of every row is left at 0
length_to_mask_short(lengths, max_len_opt) ==
    LET max_len == IF max_len_opt = None THEN SeqMax(lengths) ELSE max_len_opt
    IN [i \in 1 .. Len(lengths) |->
          << [j \in 1 .. max_len |->
                 IF j < Min(lengths[i], max_len) THEN 1 ELSE 0] >> ]

\* a (bsz, 1, max_len) tensor: 1 at the positions j < lengths[i], 0 elsewhere
length_to_mask(lengths, max_len_opt) ==
    LET max_len == IF max_len_opt = None THEN SeqMax(lengths) ELSE max_len_opt
    IN [i \in 1 .. Len(lengths) |->
          << [j \in 1 .. max_len |->
                 IF j <= Min(lengths[i], max_len) THEN 1 ELSE 0] >> ]

get_text_mask(text_ids_lengths) ==
    length_to_mask(text_ids_lengths, SeqMax(text_ids_lengths))

\* a code point outside the table is read as entry 0 of it
TextIdsRow_clamped(table, text, max_len) ==
    LET unicode_vals == text_to_unicode_values(text)
    IN [j \in 1 .. max_len |->
          IF j <= Len(unicode_vals)
          THEN IF unicode_vals[j] < Len(table)
               THEN table[unicode_vals[j] + 1]
               ELSE table[1]
          ELSE 0]

\* one row of text_ids: the ids of the text's characters, 0 in the padding
TextIdsRow(table, text, max_len) ==
    LET unicode_vals == text_to_unicode_values(text)
    IN [j \in 1 .. max_len |->
          IF j <= Len(unicode_vals)
          THEN IF unicode_vals[j] < Len(table)
               THEN table[unicode_vals[j] + 1]
               ELSE -1
          ELSE 0]

\* the rows of text_ids and the mask, for the preprocessed texts
IndexTexts(table, processed_texts, text_ids_lengths) ==
    [text_ids  |-> [i \in 1 .. Len(processed_texts) |->
                      TextIdsRow(table, processed_texts[i], SeqMax(text_ids_lengths))],
     text_mask |-> get_text_mask(text_ids_lengths)]

\* t.chars().count(), for every text
CharCounts(texts) == [i \in 1 .. Len(texts) |-> Len(texts[i])]

\* the second half of UnicodeProcessor::call
IndexProcessed(table, processed_texts) ==
    IndexTexts(table, processed_texts, CharCounts(processed_texts))

\* UnicodeProcessor::call: (text_ids, text_mask)
UnicodeProcessor_call(table, texts) ==
    IndexProcessed(table, [i \in 1 .. Len(texts) |-> preprocess_text(texts[i])])

(***************************************************************************)
(* Text chunking: split_sentences and chunk_text.  Positions are 1-based;  *)
(* a slice text[a..b] of the source is SubSeq(text, a + 1, b).             *)
(***************************************************************************)
MAX_CHUNK_LENGTH == 300

ABBREVIATIONS ==
    <<<<"D", "r", ".">>, <<"M", "r", ".">>, <<"M", "r", "s", ".">>,
       <<"M", "s", ".">>, <<"P", "r", "o", "f", ".">>, <<"S", "r", ".">>,
       <<"J", "r", ".">>, <<"S", "t", ".">>, <<"A", "v", "e", ".">>,
       <<"R", "d", ".">>, <<"B", "l", "v", "d", ".">>, <<"D", "e", "p", "t", ".">>,
       <<"I", "n", "c", ".">>, <<"L", "t", "d", ".">>, <<"C", "o", ".">>,
       <<"C", "o", "r", "p", ".">>, <<"e", "t", "c", ".">>, <<"v", "s", ".">>,
       <<"i", ".", "e", ".">>, <<"e", ".", "g", ".">>, <<"P", "h", ".", "D", ".">> >>

RECURSIVE WhitespaceRunEnd(_, _)
\* the last position of the run of whitespace that holds position i
WhitespaceRunEnd(text, i) ==
    IF i < Len(text) /\ IsWhitespace(text[i + 1]) THEN WhitespaceRunEnd(text, i + 1)
    ELSE i

RECURSIVE SentenceMatches(_, _)
\* re.find_iter(text) for ([.!?])\s+, searched from position i: each match
\* is one of . ! ? at start, and the whole run of whitespace after it
SentenceMatches(text, i) ==
    IF i >= Len(text) THEN <<>>
    ELSE IF text[i] \in {".", "!", "?"} /\ IsWhitespace(text[i + 1])
         THEN LET e == WhitespaceRunEnd(text, i + 1)
              IN <<[start |-> i, end |-> e]>> \o SentenceMatches(text, e + 1)
         ELSE SentenceMatches(text, i + 1)

\* is_abbrev that knows no abbreviation
is_abbrev_never(text, last_end, m) == FALSE

\* the text since the last boundary, trimmed, plus the punctuation of match
\* m, ends with an abbreviation
is_abbrev(text, last_end, m) ==
    LET before_punc == SubSeq(text, last_end + 1, m.start - 1)
        combined == Append(Trim(before_punc), text[m.start])
    IN \E k \in 1 .. Len(ABBREVIATIONS) : EndsWith(combined, ABBREVIATIONS[k])

RECURSIVE SplitAtMatches(_, _, _, _)
\* the loop over the matches: last_end is the number of characters already
\* put into sentences
SplitAtMatches(text, matches, last_end, sentences) ==
    IF matches = <<>> THEN [sentences |-> sentences, last_end |-> last_end]
    ELSE LET m == Head(matches)
         IN IF is_abbrev(text, last_end, m)
            THEN SplitAtMatches(text, Tail(matches), last_end, sentences)
            ELSE SplitAtMatches(text, Tail(matches), m.end,
                                Append(sentences, SubSeq(text, last_end + 1, m.end)))

\* "Add the remaining text", after the loop ended in r
WithRemainingText(text, r) ==
    IF r.last_end < Len(text)
    THEN Append(r.sentences, SubSeq(text, r.last_end + 1, Len(text)))
    ELSE r.sentences

\* if sentences.is_empty() { vec![text.to_string()] } else { sentences }
SentencesOrText(text, sentences) == IF sentences = <<>> THEN <<text>> ELSE sentences

\* the sentences of text, given the matches of the boundary pattern in it
SentencesAt(text, matches) ==
    IF matches = <<>> THEN <<text>>
    ELSE SentencesOrText(text,
             WithRemainingText(text, SplitAtMatches(text, matches, 0, <<>>)))

split_sentences(text) == SentencesAt(text, SentenceMatches(text, 1))

RECURSIVE LastNewline(_, _, _)
\* the last position in lo .. hi that holds a newline, 0 when there is none
LastNewline(text, lo, hi) ==
    IF hi < lo THEN 0
    ELSE IF text[hi] = "\n" THEN hi ELSE LastNewline(text, lo, hi - 1)

\* the end of the match of \n\s*\n that starts at the newline at position i
\* (\s* is greedy: the match runs to the last newline of the run of
\* whitespace), 0 when there is no match at i
ParaMatchEnd(text, i) == LastNewline(text, i + 1, WhitespaceRunEnd(text, i))

RECURSIVE SplitParagraphs(_, _, _)
\* para_re.split(text): the pieces between the matches of \n\s*\n, scanning
\* from position i with the current piece starting at position start
SplitParagraphs(text, i, start) ==
    IF i > Len(text) THEN <<SubSeq(text, start, Len(text))>>
    ELSE IF text[i] = "\n" /\ ParaMatchEnd(text, i) # 0
         THEN LET q == ParaMatchEnd(text, i)
              IN <<SubSeq(text, start, i - 1)>> \o SplitParagraphs(text, q + 1, q + 1)
         ELSE SplitParagraphs(text, i + 1, start)

RECURSIVE SplitOn(_, _, _)
\* str::split(c): the pieces between the occurrences of c; piece is the
\* beginning of the piece being read
SplitOn(s, c, piece) ==
    IF s = <<>> THEN <<piece>>
    ELSE IF Head(s) = c THEN <<piece>> \o SplitOn(Tail(s), c, <<>>)
         ELSE SplitOn(Tail(s), c, Append(piece, Head(s)))

RECURSIVE SplitWords(_, _)
SplitWords(s, word) ==
    IF s = <<>> THEN IF word = <<>> THEN <<>> ELSE <<word>>
    ELSE IF IsWhitespace(Head(s))
         THEN (IF word = <<>> THEN <<>> ELSE <<word>>) \o SplitWords(Tail(s), <<>>)
         ELSE SplitWords(Tail(s), Append(word, Head(s)))

\* str::split_whitespace
split_whitespace(s) == SplitWords(s, <<>>)

\* A running buffer with the chunks pushed so far: [chunks, buf, len], len
\* being the length the code counts for buf.
\* chunks.push(buf.trim()); buf.clear(); len = 0
Flush(st) == [chunks |-> Append(st.chunks, Trim(st.buf)), buf |-> <<>>, len |-> 0]

\* if !buf.is_empty() { chunks.push(buf.trim()) }: the chunks after a loop
FlushRest(st) == IF st.buf # <<>> THEN Flush(st).chunks ELSE st.chunks

\* Accumulate with a check that forgets the separator
Accumulate_tight(st, piece, sep, max_len) ==
    LET piece_len == ByteLen(piece)
        s1 == IF st.len + piece_len > max_len /\ st.buf # <<>> THEN Flush(st) ELSE st
        s2 == IF s1.buf # <<>>
              THEN [s1 EXCEPT !.buf = @ \o sep, !.len = @ + Len(sep)]
              ELSE s1
    IN [s2 EXCEPT !.buf = @ \o piece, !.len = @ + piece_len]

\* The greedy step shared by the three loops: flush when piece does not fit
\* any more, then append piece, after sep when the buffer is not empty.
Accumulate(st, piece, sep, max_len) ==
    LET piece_len == ByteLen(piece)
        s1 == IF st.len + piece_len + 1 > max_len /\ st.buf # <<>> THEN Flush(st) ELSE st
        s2 == IF s1.buf # <<>>
              THEN [s1 EXCEPT !.buf = @ \o sep, !.len = @ + Len(sep)]
              ELSE s1
    IN [s2 EXCEPT !.buf = @ \o piece, !.len = @ + piece_len]

RECURSIVE WordLoop(_, _, _)
\* for word in words { ... }
WordLoop(words, st, max_len) ==
    IF words = <<>> THEN st
    ELSE WordLoop(Tail(words), Accumulate(st, Head(words), <<" ">>, max_len), max_len)

\* "Split by space as last resort": the chunks after the words of part are
\* pushed
WordChunks(part, chunks, max_len) ==
    FlushRest(WordLoop(split_whitespace(part),
                       [chunks |-> chunks, buf |-> <<>>, len |-> 0], max_len))

\* the body of the loop over the comma parts, for the trimmed part
PartStep(part, st, max_len) ==
    IF part = <<>> THEN st
    ELSE IF ByteLen(part) > max_len
         THEN [st EXCEPT !.chunks = WordChunks(part, st.chunks, max_len)]
         ELSE Accumulate(st, part, <<",", " ">>, max_len)

RECURSIVE PartLoop(_, _, _)
\* for part in sentence.split(',') { ... }: st is (chunks, current, current_len)
PartLoop(parts, st, max_len) ==
    IF parts = <<>> THEN st
    ELSE PartLoop(Tail(parts), PartStep(Trim(Head(parts)), st, max_len), max_len)

\* the body of the loop over the sentences, for the trimmed sentence
SentenceStep(sentence, st, max_len) ==
    IF sentence = <<>> THEN st
    ELSE IF ByteLen(sentence) > max_len
         THEN PartLoop(SplitOn(sentence, ",", <<>>),
                       IF st.buf # <<>> THEN Flush(st) ELSE st,
                       max_len)
         ELSE Accumulate(st, sentence, <<" ">>, max_len)

RECURSIVE SentenceLoop(_, _, _)
\* for sentence in sentences { ... }: st is (chunks, current, current_len)
SentenceLoop(sentences, st, max_len) ==
    IF sentences = <<>> THEN st
    ELSE SentenceLoop(Tail(sentences),
                      SentenceStep(Trim(Head(sentences)), st, max_len), max_len)

\* the chunks of one paragraph longer than max_len, pushed after chunks
ParagraphChunks(para, chunks, max_len) ==
    FlushRest(SentenceLoop(split_sentences(para),
                           [chunks |-> chunks, buf |-> <<>>, len |-> 0], max_len))

\* the body of the loop over the paragraphs, for the trimmed paragraph
ParagraphStep(para, chunks, max_len) ==
    IF para = <<>> THEN chunks
    ELSE IF ByteLen(para) <= max_len THEN Append(chunks, para)
         ELSE ParagraphChunks(para, chunks, max_len)

RECURSIVE ParagraphLoop(_, _, _)
\* for para in paragraphs { ... }
ParagraphLoop(paragraphs, chunks, max_len) ==
    IF paragraphs = <<>> THEN chunks
    ELSE ParagraphLoop(Tail(paragraphs),
                       ParagraphStep(Trim(Head(paragraphs)), chunks, max_len), max_len)

\* if chunks.is_empty() { vec![String::new()] } else { chunks }
ChunksOrEmpty(chunks) == IF chunks = <<>> THEN << <<>> >> ELSE chunks

\* ChunkTrimmed without the chunk of an empty text
ChunkTrimmed_none(text, max_len) ==
    IF text = <<>> THEN <<>>
    ELSE ChunksOrEmpty(ParagraphLoop(SplitParagraphs(text, 1, 1), <<>>, max_len))

\* chunk_text for the trimmed text
ChunkTrimmed(text, max_len) ==
    IF text = <<>> THEN << <<>> >>
    ELSE ChunksOrEmpty(ParagraphLoop(SplitParagraphs(text, 1, 1), <<>>, max_len))

chunk_text(text, max_len_opt) ==
    ChunkTrimmed(Trim(text),
                 IF max_len_opt = None THEN MAX_CHUNK_LENGTH ELSE max_len_opt)

(***************************************************************************)
(* sample_noisy_latent                                                     *)
(***************************************************************************)
\* The k-th value (k = 0, 1, ...) that normal.sample(&mut rng) returns when
\* the thread's generator starts in state rng: one of -2, -1, 1, 2 (a draw
\* from the normal distribution is exactly 0.0 with probability 0).
NormalSample(rng, k) ==
    LET v == (rng + k) % 4 IN IF v < 2 THEN v - 2 ELSE v - 1

\* the (bsz, latent_dim_val, latent_len) tensor the three nested loops fill,
\* in the order b, d, t
NoiseTensor(rng, bsz, latent_dim_val, latent_len) ==
    [b \in 1 .. bsz |->
       [d \in 1 .. latent_dim_val |->
          [t \in 1 .. latent_len |->
             NormalSample(rng, ((b - 1) * latent_dim_val + (d - 1)) * latent_len + (t - 1))]]]

\* duration.iter().fold(0.0f32, |a, &b| a.max(b))
\* the first duration is taken for the longest
MaxDuration_first(duration) == IF duration = <<>> THEN RZero ELSE duration[1]

RECURSIVE MaxDuration(_)
MaxDuration(duration) ==
    IF duration = <<>> THEN RZero
    ELSE RMax(MaxDuration(SubSeq(duration, 1, Len(duration) - 1)),
              duration[Len(duration)])

\* (d * sample_rate as f32) as usize, for every d
WavLengths(duration, sample_rate) ==
    [i \in 1 .. Len(duration) |-> AsUsize(RMulInt(duration[i], sample_rate))]

\* the division without the rounding up
CeilDiv_floor(len, chunk_size) == len \div chunk_size

\* (len + chunk_size - 1) / chunk_size
CeilDiv(len, chunk_size) == (len + chunk_size - 1) \div chunk_size

LatentLengths(wav_lengths, chunk_size) ==
    [i \in 1 .. Len(wav_lengths) |-> CeilDiv(wav_lengths[i], chunk_size)]

\* the noise is returned as drawn
ApplyMask_skipped(noisy_latent, latent_mask) == noisy_latent

\* "Apply mask": noisy_latent[[b, d, t]] *= latent_mask[[b, 0, t]]
ApplyMask(noisy_latent, latent_mask) ==
    [b \in DOMAIN noisy_latent |->
       [d \in DOMAIN noisy_latent[b] |->
          [t \in DOMAIN noisy_latent[b][d] |->
             noisy_latent[b][d][t] * latent_mask[b][1][t]]]]

\* (noisy_latent, latent_mask), the generator starting in state rng
sample_noisy_latent(duration, sample_rate, base_chunk_size, chunk_compress, latent_dim, rng) ==
    LET bsz == Len(duration)
        max_dur == MaxDuration(duration)
        wav_len_max == AsUsize(RMulInt(max_dur, sample_rate))
        wav_lengths == WavLengths(duration, sample_rate)
        chunk_size == base_chunk_size * chunk_compress
        latent_len == CeilDiv(wav_len_max, chunk_size)
        latent_dim_val == latent_dim * chunk_compress
        noisy_latent == NoiseTensor(rng, bsz, latent_dim_val, latent_len)
        latent_lengths == LatentLengths(wav_lengths, chunk_size)
        latent_mask == length_to_mask(latent_lengths, latent_len)
    IN [latent |-> ApplyMask(noisy_latent, latent_mask), mask |-> latent_mask]

(***************************************************************************)
(* The engine (TextToSpeech) and its pipeline.                             *)
(***************************************************************************)
VARIABLES
    cfgs,              \* TextToSpeech.cfgs, with sample_rate
    indexer,           \* TextToSpeech.text_processor.indexer
    pc,                \* where the running operation stands
    mode,              \* the running operation: "call", "batch" or "none"
    arg_text,          \* argument: call's text, batch's text_list
    total_step,        \* arguments of call and batch
    speed,
    silence_duration,  \* argument of call
    chunks,            \* call: chunk_text(text, None)
    ci,                \* call: the loop's i, plus one
    wav_cat,           \* call
    dur_cat,           \* call
    text_list,         \* _infer: its argument
    text_ids,          \* _infer
    text_mask,         \* _infer
    duration,          \* _infer
    raw_duration,      \* history: what the duration predictor returned
    text_emb,          \* _infer
    xt,                \* _infer
    latent_mask,       \* _infer
    step,              \* _infer: the denoising loop's step
    wav_flat,          \* _infer
    infer_result,      \* what _infer returned to call or batch
    result,            \* what call or batch returned
    calls,             \* history: the session runs of the operation, in order
    noisy_latent,      \* history: what sample_noisy_latent returned to _infer
    est_io,            \* history: the vector estimator's runs of this _infer
    vocoder_in,        \* history: the latent the vocoder was run on
    runs,              \* history: call's chunks synthesized so far
    fn_in,             \* the arguments of a function applied on its own
    fn_out,            \* its result
    engine,            \* plugin: SupertonicState.engine, the Option in the Mutex
    style,             \* plugin: SupertonicState.style, the Option in the Mutex
    lock_owner,        \* plugin: the thread that holds each Mutex
    poisoned,          \* plugin: whether each Mutex is poisoned
    cmd,               \* plugin: the command each thread of the runtime runs
    stores,            \* plugin history: the number of engines and styles stored
    issued,            \* plugin history: the number of commands issued
    loaded             \* plugin history: the slots a load of which returned Ok

engineVars == <<cfgs, indexer>>

argVars == <<arg_text, total_step, speed, silence_duration>>

callVars == <<chunks, ci, wav_cat, dur_cat, runs>>

tokenVars == <<text_list, text_ids, text_mask>>

latentVars == <<noisy_latent, xt, latent_mask, step, est_io>>

inferVars == <<tokenVars, duration, raw_duration, text_emb, latentVars, wav_flat,
              vocoder_in>>

fnVars == <<fn_in, fn_out>>

pluginVars == <<engine, style, lock_owner, poisoned, cmd, stores, issued, loaded>>

vars == <<engineVars, pluginVars, pc, mode, argVars, callVars, inferVars, infer_result,
          result, calls, fnVars>>

\* The configurations of the model (tts.json): chunk_size 2 with 2 latent
\* channels, and chunk_size 3 with 1.
Configs ==
    { [sample_rate |-> 3, base_chunk_size |-> 1, chunk_compress_factor |-> 2,
       latent_dim |-> 1],
      [sample_rate |-> 2, base_chunk_size |-> 3, chunk_compress_factor |-> 1,
       latent_dim |-> 1] }

\* The lookup table of the model (unicode_indexer.json): 100 entries.
Indexers == { [k \in 1 .. 100 |-> (k % 7) + 1] }

\* 0.0f32 in a waveform; a sample of the vocoder is tagged with the _infer
\* run (1, 2, ...) that produced it and its index in wav_flat.
ZeroSample == [run |-> 0, idx |-> 0]

NoResult == [kind |-> "none"]

\* the threads of the async runtime that run the plugin's commands
Procs == {"t1", "t2"}

\* the two mutexes of SupertonicState
Locks == {"engine", "style"}

Free == "free"

\* a thread that runs no command
IdleCommand ==
    [name |-> "none", pc |-> "idle", held |-> 0, texts |-> <<>>, n |-> 0,
     saw_engine |-> None, saw_style |-> None, result |-> NoResult]

\* app.manage(SupertonicState { engine: Mutex::new(None), style: Mutex::new(None) })
PluginInit ==
    /\ engine = None
    /\ style = None
    /\ lock_owner = [l \in Locks |-> Free]
    /\ poisoned = [l \in Locks |-> FALSE]
    /\ cmd = [p \in Procs |-> IdleCommand]
    /\ stores = 0
    /\ issued = 0
    /\ loaded = {}

\* the _infer run in progress: call runs _infer once per chunk
RunNo == IF mode = "call" THEN ci ELSE 1

(***************************************************************************)
(* What the sessions may return.                                           *)
(***************************************************************************)
\* duration predictor: one raw duration per item, k / DurDen seconds
RawDurations(bsz) == [1 .. bsz -> {Rat(k, DurDen) : k \in 0 .. MaxRawDur}]

\* vector estimator: a tensor of the shape of its input
FillLike(latent, v) ==
    [b \in DOMAIN latent |->
       [d \in DOMAIN latent[b] |-> [t \in DOMAIN latent[b][d] |-> v]]]

\* vocoder: a flat buffer of n samples
VocoderBuffer(run, n) == [j \in 1 .. n |-> [run |-> run, idx |-> j]]

\* one session run of the history
Invocation(model, returned, current_step) ==
    [run |-> RunNo, model |-> model, ok |-> returned,
     current_step |-> current_step, total_step |-> total_step]

(***************************************************************************)
(* TextToSpeech::_infer                                                    *)
(***************************************************************************)
\* the durations are multiplied by speed
ApplySpeed_multiplied(raw, sp) == [i \in 1 .. Len(raw) |-> RMulInt(raw[i], sp)]

\* "Apply speed factor to duration": *dur /= speed
ApplySpeed(raw, sp) == [i \in 1 .. Len(raw) |-> RDivInt(raw[i], sp)]

\* the slicing without the clamp to the item's segment of the buffer, and
\* with the whole segment taken whatever the duration
SliceWaveforms_padded(flat, bsz, dur, sample_rate) ==
    LET wav_len_per_sample == Len(flat) \div bsz
    IN [i \in 1 .. bsz |->
          SubSeq(flat, (i - 1) * wav_len_per_sample + 1, i * wav_len_per_sample)]

\* "Slice the flat audio array into individual samples"
SliceWaveforms(flat, bsz, dur, sample_rate) ==
    LET wav_len_per_sample == Len(flat) \div bsz
    IN [i \in 1 .. bsz |->
          LET actual_len == AsUsize(RMulInt(dur[i], sample_rate))
              wav_start == (i - 1) * wav_len_per_sample
              wav_end == wav_start + Min(actual_len, wav_len_per_sample)
          IN SubSeq(flat, wav_start + 1, wav_end)]

\* the estimator's output is dropped: the loop keeps its latent
ReplaceLatent_kept(latent, denoised) == latent

\* xt = Array3::from_shape_vec(denoised_shape, denoised_data): the latent the
\* denoising loop carries to its next step
ReplaceLatent(latent, denoised) == denoised

\* the loop written with an inclusive range: one step too many
DenoisingSteps_inclusive(total) == 0 .. total

\* the loop written as do ... while: at least one step
DenoisingSteps_atleastonce(total) == 0 .. Max(total, 1) - 1

\* for step in 0..total_step
DenoisingSteps(total) == 0 .. total - 1

\* the error is swallowed and the stage is run again
PropagateError_retry(stage) == stage

\* the ? operator: where control goes when a stage of _infer fails
PropagateError(stage) == "infer_ret"

\* _infer's locals before anything is computed
ClearInfer ==
    /\ duration' = <<>>
    /\ raw_duration' = <<>>
    /\ text_emb' = "none"
    /\ noisy_latent' = <<>>
    /\ xt' = <<>>
    /\ latent_mask' = <<>>
    /\ step' = 0
    /\ est_io' = <<>>
    /\ wav_flat' = <<>>
    /\ vocoder_in' = <<>>

\* text_ids[0] is out of range when _infer is given no text: the thread
\* panics
InferPanics(tl) == Len(tl) = 0

\* _infer is entered with texts tl and runs up to the duration predictor;
\* text_ids[0] is out of range when tl is empty
InferTokenized(tl, tok) ==
    /\ text_list' = tl
    /\ text_ids' = tok.text_ids
    /\ text_mask' = tok.text_mask
    /\ pc' = IF InferPanics(tl) THEN "panic" ELSE "duration"
    /\ ClearInfer
    /\ infer_result' = NoResult

InferEnter(tl) == InferTokenized(tl, UnicodeProcessor_call(indexer, tl))

\* A session run fails: a Value could not be built (how = "value": the
\* session is not run), the run itself failed ("run"), or the output could
\* not be extracted ("extract").  _infer returns the error at once.
SessionFails(model, current_step) ==
    \E how \in {"value", "run", "extract"} :
        /\ calls' = IF how = "value" THEN calls
                    ELSE Append(calls, Invocation(model, how = "extract", current_step))
        /\ infer_result' = [ok |-> FALSE, err |-> "Ort"]
        /\ pc' = PropagateError(pc)
        /\ UNCHANGED <<engineVars, pluginVars, mode, argVars, callVars, inferVars, result, fnVars>>

\* "Predict duration" and "Apply speed factor to duration"
DurationPredict ==
    /\ pc = "duration"
    /\ \/ SessionFails("duration_predictor", -1)
       \/ \E raw \in RawDurations(Len(text_list)) :
            /\ duration' = ApplySpeed(raw, speed)
            /\ raw_duration' = raw
            /\ calls' = Append(calls, Invocation("duration_predictor", TRUE, -1))
            /\ pc' = "encode"
            /\ UNCHANGED <<engineVars, pluginVars, mode, argVars, callVars, tokenVars, text_emb,
                           latentVars, wav_flat, vocoder_in, infer_result, result, fnVars>>

\* "Encode text" and "Sample noisy latent"
TextEncode ==
    /\ pc = "encode"
    /\ \/ SessionFails("text_encoder", -1)
       \/ \E rng \in 0 .. MaxSeed :
            LET sampled == sample_noisy_latent(duration, cfgs.sample_rate,
                               cfgs.base_chunk_size, cfgs.chunk_compress_factor,
                               cfgs.latent_dim, rng)
            IN /\ text_emb' = "text_emb"
               /\ xt' = sampled.latent
               /\ latent_mask' = sampled.mask
               /\ noisy_latent' = sampled.latent
               /\ calls' = Append(calls, Invocation("text_encoder", TRUE, -1))
               /\ pc' = "denoise"
               /\ UNCHANGED <<engineVars, pluginVars, mode, argVars, callVars, tokenVars, duration, raw_duration,
                              step, est_io, wav_flat, vocoder_in, infer_result, result,
                              fnVars>>

\* one pass of the "Denoising loop"
VectorEstimate ==
    /\ pc = "denoise"
    /\ step \in DenoisingSteps(total_step)
    /\ \/ SessionFails("vector_estimator", step)
       \/ \E v \in 1 .. MaxEstVal :
            LET denoised == FillLike(xt, v)
            IN /\ xt' = ReplaceLatent(xt, denoised)
               /\ est_io' = Append(est_io, [noisy_latent |-> xt, denoised_latent |-> denoised])
               /\ step' = step + 1
               /\ calls' = Append(calls, Invocation("vector_estimator", TRUE, step))
               /\ UNCHANGED <<engineVars, pluginVars, pc, mode, argVars, callVars, tokenVars, duration, raw_duration,
                              text_emb, noisy_latent, latent_mask, wav_flat, vocoder_in,
                              infer_result, result, fnVars>>

\* "Generate waveform" and the slicing; _infer returns
Vocode ==
    /\ pc = "denoise"
    /\ step \notin DenoisingSteps(total_step)
    /\ \/ SessionFails("vocoder", -1)
       \/ \E n \in 0 .. MaxWavFlat :
            LET flat == VocoderBuffer(RunNo, n)
            IN /\ vocoder_in' = xt
               /\ wav_flat' = flat
               /\ infer_result' =
                     [ok |-> TRUE,
                      wavs |-> SliceWaveforms(flat, Len(text_list), duration,
                                              cfgs.sample_rate),
                      durs |-> duration]
               /\ calls' = Append(calls, Invocation("vocoder", TRUE, -1))
               /\ pc' = "infer_ret"
               /\ UNCHANGED <<engineVars, pluginVars, mode, argVars, callVars, tokenVars, duration, raw_duration,
                              text_emb, latentVars, result, fnVars>>

(***************************************************************************)
(* TextToSpeech::call and TextToSpeech::batch                              *)
(***************************************************************************)
\* the text of k paragraphs a, b, c, a, ... that call is given
RECURSIVE CallText(_)
CallText(k) ==
    IF k = 0 THEN <<" ">>
    ELSE LET para == <<<<"a">>, <<"b">>, <<"c">>>>[((k - 1) % 3) + 1]
             sep == IF k % 2 = 0 THEN <<"\n", "\n">> ELSE <<"\n", " ", "\n">>
         IN IF k = 1 THEN para ELSE CallText(k - 1) \o sep \o para

\* the texts call is given: of 0 .. MaxParas paragraphs
CallTexts == {CallText(k) : k \in 0 .. MaxParas}

\* the lists of texts batch is given
BatchTexts == {<<"a">>, <<"b", "\n", "\n", "c">>}

BatchLists == UNION {[1 .. n -> BatchTexts] : n \in 0 .. MaxBatch}

Silences == {Rat(k, DurDen) : k \in 0 .. MaxSilence}

\* vec![0.0f32; silence_len]
Silence(silence, sample_rate) ==
    [j \in 1 .. AsUsize(RMulInt(silence, sample_rate)) |-> ZeroSample]

\* call is entered: the text is chunked and _infer runs on the first chunk
Call(text, ts, sp, sil) ==
    /\ pc = "idle"
    /\ mode' = "call"
    /\ arg_text' = text
    /\ total_step' = ts
    /\ speed' = sp
    /\ silence_duration' = sil
    /\ chunks' = chunk_text(text, None)
    /\ ci' = 1
    /\ wav_cat' = <<>>
    /\ dur_cat' = RZero
    /\ InferEnter(<<chunks'[1]>>)
    /\ UNCHANGED <<engineVars, pluginVars, runs, result, calls, fnVars>>

\* _infer's error leaves call by the ? operator
CallFail ==
    /\ pc = "infer_ret"
    /\ mode = "call"
    /\ ~infer_result.ok
    /\ result' = [kind |-> "err", err |-> infer_result.err]
    /\ pc' = "done"
    /\ UNCHANGED <<engineVars, pluginVars, mode, argVars, callVars, inferVars, infer_result, calls,
                   fnVars>>

\* silence also before the first chunk
CatWav_leading(cat, i, wav_chunk, silence) == cat \o silence \o wav_chunk

\* the silence is left out of the duration
CatDur_nosilence(cat, i, dur, silence) == IF i = 1 THEN dur ELSE RAdd(cat, dur)

\* the loop body after _infer: wav_cat and dur_cat with this chunk
CatWav(cat, i, wav_chunk, silence) ==
    IF i = 1 THEN cat \o wav_chunk ELSE cat \o silence \o wav_chunk

\* dur_cat = dur; dur_cat += silence_duration + dur
CatDur(cat, i, dur, silence) ==
    IF i = 1 THEN dur ELSE RAdd(cat, RAdd(silence, dur))

\* the loop goes on to the next chunk
CallNext ==
    /\ pc = "infer_ret"
    /\ mode = "call"
    /\ infer_result.ok
    /\ ci < Len(chunks)
    /\ wav_cat' = CatWav(wav_cat, ci, infer_result.wavs[1],
                         Silence(silence_duration, cfgs.sample_rate))
    /\ dur_cat' = CatDur(dur_cat, ci, infer_result.durs[1], silence_duration)
    /\ runs' = Append(runs, [text_list |-> text_list, wav |-> infer_result.wavs[1],
                             dur |-> infer_result.durs[1]])
    /\ ci' = ci + 1
    /\ InferEnter(<<chunks[ci + 1]>>)
    /\ UNCHANGED <<engineVars, pluginVars, mode, argVars, chunks, result, calls, fnVars>>

\* the loop ends with the last chunk: Ok((wav_cat, dur_cat))
CallReturn ==
    /\ pc = "infer_ret"
    /\ mode = "call"
    /\ infer_result.ok
    /\ ci >= Len(chunks)
    /\ wav_cat' = CatWav(wav_cat, ci, infer_result.wavs[1],
                         Silence(silence_duration, cfgs.sample_rate))
    /\ dur_cat' = CatDur(dur_cat, ci, infer_result.durs[1], silence_duration)
    /\ runs' = Append(runs, [text_list |-> text_list, wav |-> infer_result.wavs[1],
                             dur |-> infer_result.durs[1]])
    /\ result' = [kind |-> "ok", wav |-> wav_cat', dur |-> dur_cat']
    /\ pc' = "done"
    /\ UNCHANGED <<engineVars, pluginVars, mode, argVars, chunks, ci, inferVars, infer_result, calls,
                   fnVars>>

\* every text is chunked as call does it, and the chunks are the batch
BatchInput_chunked(tl) == Flatten([i \in 1 .. Len(tl) |-> chunk_text(tl[i], None)])

\* self._infer(text_list, ...): the texts batch hands to _infer
BatchInput(tl) == tl

\* batch is entered: _infer runs on the whole list
Batch(tl, ts, sp) ==
    /\ pc = "idle"
    /\ mode' = "batch"
    /\ arg_text' = tl
    /\ total_step' = ts
    /\ speed' = sp
    /\ InferEnter(BatchInput(tl))
    /\ UNCHANGED <<engineVars, pluginVars, silence_duration, callVars, result, calls, fnVars>>

\* batch returns what _infer returned
BatchReturn ==
    /\ pc = "infer_ret"
    /\ mode = "batch"
    /\ result' = IF infer_result.ok
                 THEN [kind |-> "ok", wavs |-> infer_result.wavs,
                       durs |-> infer_result.durs]
                 ELSE [kind |-> "err", err |-> infer_result.err]
    /\ pc' = "done"
    /\ UNCHANGED <<engineVars, pluginVars, mode, argVars, callVars, inferVars, infer_result, calls,
                   fnVars>>

(***************************************************************************)
(* The specification of the pipeline: one engine, one call or batch.       *)
(***************************************************************************)
\* a loaded engine on which nothing has run yet
EngineInit ==
    /\ PluginInit
    /\ cfgs \in Configs
    /\ indexer \in Indexers
    /\ pc = "idle"
    /\ mode = "none"
    /\ arg_text = <<>>
    /\ total_step = 0
    /\ speed = 1
    /\ silence_duration = RZero
    /\ chunks = <<>>
    /\ ci = 0
    /\ wav_cat = <<>>
    /\ dur_cat = RZero
    /\ runs = <<>>
    /\ text_list = <<>>
    /\ text_ids = <<>>
    /\ text_mask = <<>>
    /\ duration = <<>>
    /\ raw_duration = <<>>
    /\ text_emb = "none"
    /\ noisy_latent = <<>>
    /\ xt = <<>>
    /\ latent_mask = <<>>
    /\ step = 0
    /\ est_io = <<>>
    /\ wav_flat = <<>>
    /\ vocoder_in = <<>>
    /\ infer_result = NoResult
    /\ result = NoResult
    /\ calls = <<>>

NoInput == [fn |-> "none"]

NoOutput == [done |-> FALSE]

Init ==
    /\ EngineInit
    /\ fn_in = NoInput
    /\ fn_out = NoOutput

Next ==
    \/ \E text \in CallTexts, ts \in 0 .. MaxSteps, sp \in 1 .. MaxSpeed, sil \in Silences :
          Call(text, ts, sp, sil)
    \/ \E tl \in BatchLists, ts \in 0 .. MaxSteps, sp \in 1 .. MaxSpeed : Batch(tl, ts, sp)
    \/ DurationPredict
    \/ TextEncode
    \/ VectorEstimate
    \/ Vocode
    \/ CallFail
    \/ CallNext
    \/ CallReturn
    \/ BatchReturn

Spec == Init /\ [][Next]_vars

(***************************************************************************)
(* sample_noisy_latent on its own: the durations and the generator's seed  *)
(* are drawn at the start, the configuration is the engine's.              *)
(***************************************************************************)
\* the duration vectors: up to MaxBatch items of k / DurDen seconds
LatentDurations ==
    UNION {[1 .. n -> {Rat(k, DurDen) : k \in 0 .. MaxLatentDur}] : n \in 0 .. MaxBatch}

LatentInit ==
    /\ EngineInit
    /\ fn_in \in [fn : {"sample_noisy_latent"}, duration : LatentDurations,
                   rng : 0 .. MaxSeed]
    /\ fn_out = NoOutput

SampleNoisyLatent ==
    /\ ~fn_out.done
    /\ fn_out' = [done |-> TRUE,
                  out |-> sample_noisy_latent(fn_in.duration, cfgs.sample_rate,
                              cfgs.base_chunk_size, cfgs.chunk_compress_factor,
                              cfgs.latent_dim, fn_in.rng)]
    /\ UNCHANGED <<engineVars, pluginVars, pc, mode, argVars, callVars, inferVars, infer_result,
                   result, calls, fn_in>>

LatentNext == SampleNoisyLatent

SpecLatent == LatentInit /\ [][LatentNext]_vars

(***************************************************************************)
(* UnicodeProcessor::call on its own: the texts are drawn at the start,    *)
(* the lookup table is the engine's.                                       *)
(***************************************************************************)
\* the texts: empty, plain, with an accent (NFKD gives e and U+0301, both
\* outside the table), with a space before a comma, with a letter outside
\* the table, and an emoji alone
TokenTexts ==
    { <<>>, <<"a">>, <<"U+00E9">>, <<"a", " ", ",", "b">>, <<"M", "x", "?">>,
      <<"U+1F600">> }

TokenLists == UNION {[1 .. n -> TokenTexts] : n \in 0 .. MaxBatch}

TokenizeInit ==
    /\ EngineInit
    /\ fn_in \in [fn : {"UnicodeProcessor::call"}, text_list : TokenLists]
    /\ fn_out = NoOutput

Tokenize ==
    /\ ~fn_out.done
    /\ fn_out' = [done |-> TRUE, out |-> UnicodeProcessor_call(indexer, fn_in.text_list)]
    /\ UNCHANGED <<engineVars, pluginVars, pc, mode, argVars, callVars, inferVars, infer_result,
                   result, calls, fn_in>>

TokenizeNext == Tokenize

SpecTokenize == TokenizeInit /\ [][TokenizeNext]_vars

(***************************************************************************)
(* chunk_text on its own: the text and max_len are drawn at the start.     *)
(***************************************************************************)
\* "This is a sentence. This is another sentence." (tests/unit_tests.rs)
TestText ==
    <<"T", "h", "i", "s", " ", "i", "s", " ", "a", " ",
      "s", "e", "n", "t", "e", "n", "c", "e", ".", " ",
      "T", "h", "i", "s", " ", "i", "s", " ", "a", "n", "o", "t", "h", "e", "r", " ",
      "s", "e", "n", "t", "e", "n", "c", "e", ".">>

\* the texts: empty, blank, one short paragraph, two paragraphs, sentences,
\* an abbreviation, comma parts, a comma part of several words between
\* short ones, one long word, and the text of the unit test
ChunkTexts ==
    { <<>>,
      <<" ", "\n", " ">>,
      <<" ", "a", " ", "b", ".", " ">>,
      <<"a", " ", "b", ".", "\n", " ", "\n", "c", ".">>,
      <<"a", " ", "b", ".", " ", "a", " ", "c", ".", " ", "b", ".">>,
      <<"a", "b", ".", " ", " ", "c", "?", " ", "e", "!">>,
      <<"D", "r", ".", " ", "b", ".", " ", "c", ".">>,
      <<"a", "b", ",", "c", "e", ",", "f", "g", ".">>,
      <<"a", "b", "c", ",", "e", "f", "g", ",", "h", "i", ".">>,
      <<"a", ",", "b", "b", "b", "b", "b", "b", " ", "c", "c", ",", "e", ".">>,
      <<"a", "b", "c", "e", "f", "g", "h", "i">>,
      TestText }

ChunkMaxLens == {4, 5, 6, 20}

ChunkInit ==
    /\ EngineInit
    /\ fn_in \in [fn : {"chunk_text"}, text : ChunkTexts, max_len : ChunkMaxLens]
    /\ fn_out = NoOutput

ChunkText ==
    /\ ~fn_out.done
    /\ fn_out' = [done |-> TRUE, out |-> chunk_text(fn_in.text, fn_in.max_len)]
    /\ UNCHANGED <<engineVars, pluginVars, pc, mode, argVars, callVars, inferVars, infer_result,
                   result, calls, fn_in>>

ChunkNext == ChunkText

SpecChunk == ChunkInit /\ [][ChunkNext]_vars

(***************************************************************************)
(* preprocess_text on its own: a text is normalized, and the result is     *)
(* normalized once more.                                                   *)
(***************************************************************************)
\* the characters the texts are made of: a letter, the space, punctuation
\* that the spacing fixes and the final period look at, a quote, and the
\* sign that is replaced by a word
PreChars == {"a", " ", ",", ".", "'", "@"}

\* texts with characters that are removed, replaced by a space or
\* decomposed, and with the other kinds of final character
PreSymbolTexts ==
    { <<"_">>, <<"U+1F600">>, <<"U+2665", " ">>, <<"#", "U+00AF">>,
      <<"a", "U+1F600">>, <<"a", ")">>, <<"a", "!">>, <<"\"", "a", "\"">>,
      <<"U+00E9">>, <<"a", "U+2026">>, <<"a", "U+3002">>, <<"\t", "\n">>,
      <<"a", "U+201D">>, <<"a", "]">> }

PreTexts == UNION {[1 .. n -> PreChars] : n \in 0 .. MaxTextLen} \cup PreSymbolTexts

PreprocessInit ==
    /\ EngineInit
    /\ fn_in \in [fn : {"preprocess_text"}, text : PreTexts]
    /\ fn_out = NoOutput

\* preprocess_text(text)
PreprocessText ==
    /\ ~fn_out.done
    /\ fn_out' = [done |-> TRUE, pass |-> 1, out |-> preprocess_text(fn_in.text),
                  first |-> preprocess_text(fn_in.text)]
    /\ UNCHANGED <<engineVars, pluginVars, pc, mode, argVars, callVars, inferVars, infer_result,
                   result, calls, fn_in>>

\* preprocess_text applied to the text it returned
PreprocessAgain ==
    /\ fn_out.done
    /\ fn_out.pass = 1
    /\ fn_out' = [fn_out EXCEPT !.pass = 2, !.out = preprocess_text(fn_out.out)]
    /\ UNCHANGED <<engineVars, pluginVars, pc, mode, argVars, callVars, inferVars, infer_result,
                   result, calls, fn_in>>

PreprocessNext == PreprocessText \/ PreprocessAgain

SpecPreprocess == PreprocessInit /\ [][PreprocessNext]_vars

(***************************************************************************)
(* load_voice_style and load_voice_style_from_bytes on their own.  A       *)
(* source is a parsed VoiceStyleData; the result is Ok(Style), Err(e) or   *)
(* a panic of the thread.                                                  *)
(***************************************************************************)
\* for batch in &data { for row in batch { for &val in row { ... } } }: the
\* values in the order the loops visit them
StyleValues(data) == Flatten(Flatten(data))

RECURSIVE FillFlat(_, _, _, _)
\* flat[offset + idx] = val; idx += 1, for the values from idx on: an index
\* past the end of flat panics (ok = FALSE)
FillFlat(flat, offset, vals, idx) ==
    IF idx = Len(vals) THEN [ok |-> TRUE, flat |-> flat]
    ELSE IF offset + idx >= Len(flat) THEN [ok |-> FALSE, flat |-> flat]
    ELSE FillFlat([flat EXCEPT ![offset + idx + 1] = vals[idx + 1]], offset, vals, idx + 1)

\* the dp values of source i (counted from 0) are written when its ttl
\* values fitted
FillDp(st, f) == [ok |-> f.ok, ttl_flat |-> st.ttl_flat, dp_flat |-> f.flat]

FillTtl(st, i, data, dp_vol, f) ==
    IF ~f.ok THEN [st EXCEPT !.ok = FALSE, !.ttl_flat = f.flat]
    ELSE FillDp([st EXCEPT !.ttl_flat = f.flat],
                FillFlat(st.dp_flat, i * dp_vol, StyleValues(data.style_dp.data), 0))

RECURSIVE FillLoop(_, _, _, _, _)
\* for (i, bytes) in bytes_list.iter().enumerate() { ... }, from source i on
FillLoop(st, sources, i, ttl_vol, dp_vol) ==
    IF i = Len(sources) \/ ~st.ok THEN st
    ELSE FillLoop(FillTtl(st, i, sources[i + 1], dp_vol,
                          FillFlat(st.ttl_flat, i * ttl_vol,
                                   StyleValues(sources[i + 1].style_ttl.data), 0)),
                  sources, i + 1, ttl_vol, dp_vol)

\* vec![0.0f32; size]
ZeroVec(size) == [k \in 1 .. size |-> 0]

\* Array3::from_shape_vec((bsz, dim1, dim2), flat): row-major, an error
\* when flat does not hold bsz * dim1 * dim2 values
from_shape_vec(bsz, dim1, dim2, flat) ==
    IF Len(flat) # bsz * dim1 * dim2 THEN [ok |-> FALSE]
    ELSE [ok |-> TRUE,
          array |-> [b \in 1 .. bsz |-> [r \in 1 .. dim1 |-> [c \in 1 .. dim2 |->
                       flat[(b - 1) * dim1 * dim2 + (r - 1) * dim2 + c]]]]]

\* the end of load_voice_style_from_bytes: the two from_shape_vec calls
StyleOf(ttl, dp) ==
    IF ~ttl.ok \/ ~dp.ok THEN [kind |-> "err", error |-> "ShapeMismatch"]
    ELSE [kind |-> "ok", ttl |-> ttl.array, dp |-> dp.array]

StyleFilled(st, bsz, ttl_dims, dp_dims) ==
    IF ~st.ok THEN [kind |-> "panic"]
    ELSE StyleOf(from_shape_vec(bsz, ttl_dims[2], ttl_dims[3], st.ttl_flat),
                 from_shape_vec(bsz, dp_dims[2], dp_dims[3], st.dp_flat))

\* ttl_dims and dp_dims are the dims of the first source; dims[1] and
\* dims[2] of the code are the second and third entries
StyleFromDims(sources, ttl_dims, dp_dims) ==
    StyleFilled(FillLoop([ok |-> TRUE,
                          ttl_flat |-> ZeroVec(Len(sources) * ttl_dims[2] * ttl_dims[3]),
                          dp_flat |-> ZeroVec(Len(sources) * dp_dims[2] * dp_dims[3])],
                         sources, 0, ttl_dims[2] * ttl_dims[3], dp_dims[2] * dp_dims[3]),
                Len(sources), ttl_dims, dp_dims)

load_voice_style_from_bytes(bytes_list) ==
    IF Len(bytes_list) = 0 THEN [kind |-> "err", error |-> "Validation"]
    ELSE StyleFromDims(bytes_list, bytes_list[1].style_ttl.dims, bytes_list[1].style_dp.dims)

\* readable: whether std::fs::read succeeds on every path
load_voice_style(voice_style_paths, readable) ==
    IF Len(voice_style_paths) > 0 /\ ~readable THEN [kind |-> "err", error |-> "Io"]
    ELSE load_voice_style_from_bytes(voice_style_paths)

\* the data of a component with n values, in rows of two: the k-th value
\* of source i is 10 * i + k, never the 0.0 of the fill
StyleData(i, n) ==
    << [r \in 1 .. (n + 1) \div 2 |->
          [c \in 1 .. Min(2, n - 2 * (r - 1)) |-> 10 * i + 2 * (r - 1) + c]] >>

StyleTtlDims == {<<1, 1, 1>>, <<1, 1, 2>>}

StyleDpDims == {<<1, 2, 1>>}

\* the lists of sources: every source has the dims of the call, and any
\* number of values in each component
StyleSources(ttl_dims, dp_dims) ==
    UNION {{[i \in 1 .. bsz |->
               [style_ttl |-> [data |-> StyleData(i, n[i][1]), dims |-> ttl_dims],
                style_dp |-> [data |-> StyleData(i, n[i][2]), dims |-> dp_dims]]] :
             n \in [1 .. bsz -> (0 .. MaxStyleVals) \X (0 .. MaxStyleVals)]} :
           bsz \in 0 .. MaxStyles}

StyleInputs ==
    UNION {{[fn |-> f, sources |-> src, readable |-> rd] :
              src \in StyleSources(td, dd),
              f \in {"load_voice_style", "load_voice_style_from_bytes"},
              rd \in BOOLEAN} :
           td \in StyleTtlDims, dd \in StyleDpDims}

StyleInit ==
    /\ EngineInit
    /\ fn_in \in {x \in StyleInputs : x.fn = "load_voice_style" \/ x.readable}
    /\ fn_out = NoOutput

LoadVoiceStyle ==
    /\ ~fn_out.done
    /\ fn_in.fn = "load_voice_style"
    /\ fn_out' = [done |-> TRUE, out |-> load_voice_style(fn_in.sources, fn_in.readable)]
    /\ UNCHANGED <<engineVars, pluginVars, pc, mode, argVars, callVars, inferVars, infer_result,
                   result, calls, fn_in>>

LoadVoiceStyleFromBytes ==
    /\ ~fn_out.done
    /\ fn_in.fn = "load_voice_style_from_bytes"
    /\ fn_out' = [done |-> TRUE, out |-> load_voice_style_from_bytes(fn_in.sources)]
    /\ UNCHANGED <<engineVars, pluginVars, pc, mode, argVars, callVars, inferVars, infer_result,
                   result, calls, fn_in>>

StyleNext == LoadVoiceStyle \/ LoadVoiceStyleFromBytes

SpecStyle == StyleInit /\ [][StyleNext]_vars

(***************************************************************************)
(* load_text_to_speech and load_text_to_speech_from_memory on their own.   *)
(* The result carries the log of the artifacts touched: "read" of a file,  *)
(* "parse" of the configuration or the indexer, "session" of a model.      *)
(***************************************************************************)
\* the files of onnx_dir in the order load_text_to_speech reads them
ArtifactFiles ==
    <<"tts.json", "duration_predictor.onnx", "text_encoder.onnx",
      "vector_estimator.onnx", "vocoder.onnx", "unicode_indexer.json">>

\* the sessions in the order load_text_to_speech_from_memory builds them
SessionModels == <<"duration_predictor", "text_encoder", "vector_estimator", "vocoder">>

LogOf(op, names, n) == [k \in 1 .. n |-> <<op, names[k]>>]

\* UnicodeProcessor::from_bytes and TextToSpeech::new, after the sessions
IndexerLoaded(log, indexer_ok) ==
    IF ~indexer_ok
    THEN [kind |-> "err", error |-> "TextProcessing",
          log |-> Append(log, <<"parse", "unicode_indexer.json">>)]
    ELSE [kind |-> "ok", device |-> "cpu",
          log |-> Append(log, <<"parse", "unicode_indexer.json">>)]

\* the four commit_from_memory calls: bad_session is the first model that
\* is not a valid ONNX model, 0 when all are
SessionsBuilt(log, bad_session, indexer_ok) ==
    IF bad_session # 0
    THEN [kind |-> "err", error |-> "Ort",
          log |-> log \o LogOf("session", SessionModels, bad_session)]
    ELSE IndexerLoaded(log \o LogOf("session", SessionModels, Len(SessionModels)),
                       indexer_ok)

\* log: what was touched before the call
load_text_to_speech_from_memory(log, cfg_ok, bad_session, indexer_ok, use_gpu) ==
    IF use_gpu THEN [kind |-> "err", error |-> "Config", log |-> log]
    ELSE IF ~cfg_ok
         THEN [kind |-> "err", error |-> "Config",
               log |-> Append(log, <<"parse", "tts.json">>)]
         ELSE SessionsBuilt(Append(log, <<"parse", "tts.json">>), bad_session, indexer_ok)

\* missing: the first file of onnx_dir that cannot be read, 0 when all can
load_text_to_speech(missing, cfg_ok, bad_session, indexer_ok, use_gpu) ==
    IF missing # 0
    THEN [kind |-> "err", error |-> "Io", log |-> LogOf("read", ArtifactFiles, missing)]
    ELSE load_text_to_speech_from_memory(LogOf("read", ArtifactFiles, Len(ArtifactFiles)),
                                         cfg_ok, bad_session, indexer_ok, use_gpu)

LoadInputs ==
    [fn : {"load_text_to_speech", "load_text_to_speech_from_memory"},
     missing : 0 .. Len(ArtifactFiles), cfg_ok : BOOLEAN,
     bad_session : 0 .. Len(SessionModels), indexer_ok : BOOLEAN, use_gpu : BOOLEAN]

LoadInit ==
    /\ EngineInit
    /\ fn_in \in {x \in LoadInputs : x.fn = "load_text_to_speech" \/ x.missing = 0}
    /\ fn_out = NoOutput

LoadTextToSpeech ==
    /\ ~fn_out.done
    /\ fn_in.fn = "load_text_to_speech"
    /\ fn_out' = [done |-> TRUE,
                  out |-> load_text_to_speech(fn_in.missing, fn_in.cfg_ok, fn_in.bad_session,
                                              fn_in.indexer_ok, fn_in.use_gpu)]
    /\ UNCHANGED <<engineVars, pluginVars, pc, mode, argVars, callVars, inferVars, infer_result,
                   result, calls, fn_in>>

LoadTextToSpeechFromMemory ==
    /\ ~fn_out.done
    /\ fn_in.fn = "load_text_to_speech_from_memory"
    /\ fn_out' = [done |-> TRUE,
                  out |-> load_text_to_speech_from_memory(<<>>, fn_in.cfg_ok,
                                                          fn_in.bad_session,
                                                          fn_in.indexer_ok, fn_in.use_gpu)]
    /\ UNCHANGED <<engineVars, pluginVars, pc, mode, argVars, callVars, inferVars, infer_result,
                   result, calls, fn_in>>

LoadNext == LoadTextToSpeech \/ LoadTextToSpeechFromMemory

SpecLoad == LoadInit /\ [][LoadNext]_vars

(***************************************************************************)
(* sanitize_filename on its own.  The result is the string returned, or a  *)
(* panic of the thread.                                                    *)
(***************************************************************************)
\* char::is_ascii_alphanumeric
is_ascii_alphanumeric(c) ==
    LET cp == CodePoint(c)
    IN (48 <= cp /\ cp <= 57) \/ (65 <= cp /\ cp <= 90) \/ (97 <= cp /\ cp <= 122)

RECURSIVE CharsWithin(_, _)
\* the longest prefix of text whose characters end within the first n bytes
CharsWithin(text, n) ==
    IF text = <<>> \/ Utf8Len(Head(text)) > n THEN <<>>
    ELSE <<Head(text)>> \o CharsWithin(Tail(text), n - Utf8Len(Head(text)))

\* &text[..n], for n < text.len(): the characters of the first n bytes, or a
\* panic when byte n is not a character boundary
ByteSlice(text, n) ==
    IF ByteLen(CharsWithin(text, n)) = n
    THEN [kind |-> "ok", text |-> CharsWithin(text, n)]
    ELSE [kind |-> "panic"]

\* text.chars().map(|c| if c.is_ascii_alphanumeric() { c } else { '_' }).collect()
Underscored(text) ==
    [j \in 1 .. Len(text) |-> IF is_ascii_alphanumeric(text[j]) THEN text[j] ELSE "_"]

Sanitized(slice) ==
    IF slice.kind = "panic" THEN slice ELSE [kind |-> "ok", name |-> Underscored(slice.text)]

sanitize_filename(text, max_len) ==
    Sanitized(IF ByteLen(text) > max_len THEN ByteSlice(text, max_len)
              ELSE [kind |-> "ok", text |-> text])

\* let name = "Hello World! @#$"
TestName ==
    <<"H", "e", "l", "l", "o", " ", "W", "o", "r", "l", "d", "!", " ", "@", "#", "$">>

\* a letter, a digit, punctuation, the space and a character of two bytes
NameChars == {"a", "1", "!", " ", "U+00E9"}

NameTexts == UNION {[1 .. n -> NameChars] : n \in 0 .. MaxNameLen} \cup {TestName}

SanitizeInit ==
    /\ EngineInit
    /\ fn_in \in [fn : {"sanitize_filename"}, text : NameTexts,
                   max_len : (0 .. MaxNameLen + 1) \cup {10}]
    /\ fn_out = NoOutput

SanitizeFilename ==
    /\ ~fn_out.done
    /\ fn_out' = [done |-> TRUE, out |-> sanitize_filename(fn_in.text, fn_in.max_len)]
    /\ UNCHANGED <<engineVars, pluginVars, pc, mode, argVars, callVars, inferVars, infer_result,
                   result, calls, fn_in>>

SanitizeNext == SanitizeFilename

SpecSanitize == SanitizeInit /\ [][SanitizeNext]_vars

(***************************************************************************)
(* split_sentences on its own.                                             *)
(***************************************************************************)
\* the pieces the texts are made of: two abbreviations without their last
\* period, a word, punctuation and the space
SentencePieces ==
    {<<"D", "r">>, <<"e", ".", "g">>, <<"a">>, <<".">>, <<"?">>, <<" ">>}

\* longer texts: a boundary before and after an abbreviation, an
\* abbreviation with an inner period, a run of whitespace after the period
SentenceLongTexts ==
    { <<"a", ".", " ", "D", "r", ".", " ", "a", ".", " ", "a">>,
      <<"P", "h", ".", "D", ".", " ", "a", "!", " ", "\n", "a">>,
      TestText }

SentenceTexts ==
    UNION {{Flatten(ps) : ps \in [1 .. n -> SentencePieces]} : n \in 0 .. MaxPieces}
      \cup SentenceLongTexts

SentencesInit ==
    /\ EngineInit
    /\ fn_in \in [fn : {"split_sentences"}, text : SentenceTexts]
    /\ fn_out = NoOutput

SplitSentences ==
    /\ ~fn_out.done
    /\ fn_out' = [done |-> TRUE, out |-> split_sentences(fn_in.text)]
    /\ UNCHANGED <<engineVars, pluginVars, pc, mode, argVars, callVars, inferVars, infer_result,
                   result, calls, fn_in>>

SentencesNext == SplitSentences

SpecSentences == SentencesInit /\ [][SentencesNext]_vars

(***************************************************************************)
(* The plugin: commands run concurrently on the threads of the runtime     *)
(* and share SupertonicState.  A step is what a thread does between two    *)
(* operations on a Mutex; a thread that waits for a Mutex has no step.     *)
(***************************************************************************)
Commands ==
    {"initialize", "load_engine", "set_voice", "load_voice", "speak", "speak_batch",
     "get_engine_info", "save_wav"}

EngineLoads == {"initialize", "load_engine"}

VoiceLoads == {"set_voice", "load_voice"}

Synths == {"speak", "speak_batch"}

\* the order get_engine_info would take the mutexes in, were it reversed
LockOrder_reversed(name) ==
    CASE name \in Synths -> <<"engine", "style">>
      [] name = "get_engine_info" -> <<"style", "engine">>
      [] name \in VoiceLoads -> <<"style">>
      [] OTHER -> <<"engine">>

\* the mutexes a command locks, in the order of its lock() calls
LockOrder(name) ==
    CASE name \in Synths \cup {"get_engine_info"} -> <<"engine", "style">>
      [] name \in VoiceLoads -> <<"style">>
      [] OTHER -> <<"engine">>

\* a lock() that does not wait
LockFree_always(owner) == TRUE

\* Mutex::lock returns only when no thread holds the mutex
LockFree(owner) == owner = Free

\* a command that does not look at the Option
SlotMissing_ignored(name, slot) == FALSE

\* .ok_or(Error::State(..))?: the commands that need the value return an
\* error when the Option is None; get_engine_info only reports it
SlotMissing(name, slot) == name # "get_engine_info" /\ slot = None

Slot(l) == IF l = "engine" THEN engine ELSE style

\* the guards of thread p are dropped
Released(p) == [l \in Locks |-> IF lock_owner[l] = p THEN Free ELSE lock_owner[l]]

\* the command of thread p returns res and its guards are dropped
Return(p, res) ==
    /\ cmd' = [cmd EXCEPT ![p] = [@ EXCEPT !.pc = "idle", !.held = 0, !.result = res]]
    /\ lock_owner' = Released(p)
    /\ UNCHANGED poisoned

\* thread p panics: its guards are dropped while panicking, which poisons
\* their mutexes
Panic(p) ==
    /\ cmd' = [cmd EXCEPT ![p] = [@ EXCEPT !.pc = "idle", !.held = 0,
                                            !.result = [kind |-> "panic"]]]
    /\ lock_owner' = Released(p)
    /\ poisoned' = [l \in Locks |-> poisoned[l] \/ lock_owner[l] = p]

Ok == [kind |-> "ok"]

\* an error: its variant of Error and what it is about
Err(e) == [kind |-> "err", err |-> e]

\* the lists of texts speak_batch is given
PluginTexts == {<<>>, << <<"a">> >>}

\* a command is invoked on thread p
Issue(p) ==
    /\ cmd[p].pc = "idle"
    /\ issued < MaxCommands
    /\ \E name \in Commands, texts \in PluginTexts :
          /\ name # "speak_batch" => texts = <<>>
          /\ cmd' = [cmd EXCEPT ![p] =
                       [IdleCommand EXCEPT !.name = name, !.texts = texts,
                          !.pc = IF name \in EngineLoads \cup VoiceLoads
                                 THEN "load" ELSE "lock"]]
    /\ issued' = issued + 1
    /\ UNCHANGED <<engine, style, lock_owner, poisoned, stores, loaded>>

\* what reading and loading the artifacts of a command can end in: the
\* engine or style, an error, or for a style the panic of an index past the
\* end of the vector
LoadOutcomes(name) ==
    IF name \in VoiceLoads THEN {"ok", "Io", "Supertonic", "panic"}
    ELSE {"ok", "Io", "Supertonic"}

\* initialize, load_engine, set_voice, load_voice up to the lock(): the
\* files are read and the engine or style is built, no mutex held
LoadArtifacts(p) ==
    /\ cmd[p].pc = "load"
    /\ \E outcome \in LoadOutcomes(cmd[p].name) :
          CASE outcome = "ok" ->
                 /\ cmd' = [cmd EXCEPT ![p] = [@ EXCEPT !.pc = "store"]]
                 /\ UNCHANGED <<lock_owner, poisoned>>
            [] outcome = "panic" -> Panic(p)
            [] OTHER -> Return(p, Err(<<outcome, "load">>))
    /\ UNCHANGED <<engine, style, stores, issued, loaded>>

\* *state.engine.lock().unwrap() = Some(engine), and the same for the
\* style: the guard lives for the assignment only.  initialize then looks
\* for the voices, which can fail.
Store(p) ==
    /\ cmd[p].pc = "store"
    /\ LockFree(lock_owner[LockOrder(cmd[p].name)[1]])
    /\ IF poisoned[LockOrder(cmd[p].name)[1]]
       THEN Panic(p) /\ UNCHANGED <<engine, style, stores, loaded>>
       ELSE /\ stores' = stores + 1
            /\ IF cmd[p].name \in EngineLoads
               THEN engine' = stores + 1 /\ UNCHANGED style
               ELSE style' = stores + 1 /\ UNCHANGED engine
            /\ \/ /\ Return(p, Ok)
                  /\ loaded' = loaded \cup {LockOrder(cmd[p].name)[1]}
               \/ /\ cmd[p].name = "initialize"
                  /\ Return(p, Err(<<"State", "assets">>))
                  /\ UNCHANGED loaded
    /\ UNCHANGED issued

\* the next lock().unwrap() of speak, speak_batch, get_engine_info or
\* save_wav, with the test of the Option that follows it
Acquire(p) ==
    /\ cmd[p].pc = "lock"
    /\ LET l == LockOrder(cmd[p].name)[cmd[p].held + 1]
       IN /\ LockFree(lock_owner[l])
          /\ IF poisoned[l] THEN Panic(p)
             ELSE IF SlotMissing(cmd[p].name, Slot(l)) THEN Return(p, Err(<<"State", l>>))
             ELSE /\ lock_owner' = [lock_owner EXCEPT ![l] = p]
                  /\ cmd' = [cmd EXCEPT ![p] =
                               [@ EXCEPT !.held = @ + 1,
                                  !.saw_engine = IF l = "engine" THEN engine ELSE @,
                                  !.saw_style = IF l = "style" THEN style ELSE @,
                                  !.pc = IF cmd[p].held + 1 = Len(LockOrder(cmd[p].name))
                                         THEN "run" ELSE "lock"]]
                  /\ UNCHANGED poisoned
    /\ UNCHANGED <<engine, style, stores, issued, loaded>>

\* get_engine_info returns what it saw
EngineInfo(p) ==
    /\ cmd[p].pc = "run"
    /\ cmd[p].name = "get_engine_info"
    /\ Return(p, Ok)
    /\ UNCHANGED <<engine, style, stores, issued, loaded>>

\* save_wav writes the file, or fails to
SaveWav(p) ==
    /\ cmd[p].pc = "run"
    /\ cmd[p].name = "save_wav"
    /\ Return(p, Ok) \/ Return(p, Err(<<"State", "wav">>))
    /\ UNCHANGED <<engine, style, stores, issued, loaded>>

\* engine.batch(&texts, ..) panics in _infer when texts is empty, the two
\* guards held
BatchPanics(p) == cmd[p].name = "speak_batch" /\ InferPanics(cmd[p].texts)

BatchPanic(p) ==
    /\ cmd[p].pc = "run"
    /\ BatchPanics(p)
    /\ Panic(p)
    /\ UNCHANGED <<engine, style, stores, issued, loaded>>

\* one run of a session of the engine, within engine.call or engine.batch
Invoke(p) ==
    /\ cmd[p].pc = "run"
    /\ cmd[p].name \in Synths
    /\ ~BatchPanics(p)
    /\ cmd[p].n < MaxInvocations
    /\ cmd' = [cmd EXCEPT ![p] = [@ EXCEPT !.n = @ + 1]]
    /\ UNCHANGED <<engine, style, lock_owner, poisoned, stores, issued, loaded>>

\* engine.call or engine.batch returned Ok: the response is returned
SynthesisReturn(p) ==
    /\ cmd[p].pc = "run"
    /\ cmd[p].name \in Synths
    /\ cmd[p].n = MaxInvocations
    /\ Return(p, Ok)
    /\ UNCHANGED <<engine, style, stores, issued, loaded>>

\* engine.call or engine.batch returned an error, which is returned
SynthesisFail(p) ==
    /\ cmd[p].pc = "run"
    /\ cmd[p].name \in Synths
    /\ ~BatchPanics(p)
    /\ cmd[p].n < MaxInvocations
    /\ Return(p, Err(<<"Supertonic", "call">>))
    /\ UNCHANGED <<engine, style, stores, issued, loaded>>

\* the steps of the command thread p runs
CommandStep(p) ==
    \/ LoadArtifacts(p)
    \/ Store(p)
    \/ Acquire(p)
    \/ EngineInfo(p)
    \/ SaveWav(p)
    \/ BatchPanic(p)
    \/ Invoke(p)
    \/ SynthesisReturn(p)
    \/ SynthesisFail(p)

coreVars == <<engineVars, pc, mode, argVars, callVars, inferVars, infer_result, result,
              calls, fnVars>>

PluginNext ==
    \/ \E p \in Procs : Issue(p) /\ UNCHANGED coreVars
    \/ \E p \in Procs : LoadArtifacts(p) /\ UNCHANGED coreVars
    \/ \E p \in Procs : Store(p) /\ UNCHANGED coreVars
    \/ \E p \in Procs : Acquire(p) /\ UNCHANGED coreVars
    \/ \E p \in Procs : EngineInfo(p) /\ UNCHANGED coreVars
    \/ \E p \in Procs : SaveWav(p) /\ UNCHANGED coreVars
    \/ \E p \in Procs : BatchPanic(p) /\ UNCHANGED coreVars
    \/ \E p \in Procs : Invoke(p) /\ UNCHANGED coreVars
    \/ \E p \in Procs : SynthesisReturn(p) /\ UNCHANGED coreVars
    \/ \E p \in Procs : SynthesisFail(p) /\ UNCHANGED coreVars

\* the engine of the plugin's model is the first configuration
PluginStart ==
    /\ EngineInit
    /\ cfgs.sample_rate = 3
    /\ fn_in = NoInput
    /\ fn_out = NoOutput

SpecPlugin == PluginStart /\ [][PluginNext]_vars

\* every thread of the runtime is scheduled: a command that can take a
\* step takes it
FairSpecPlugin ==
    SpecPlugin /\ \A p \in Procs : WF_vars(CommandStep(p) /\ UNCHANGED coreVars)

(***************************************************************************)
(* Properties of the pipeline.                                             *)
(***************************************************************************)
IsPrefix(s, t) == Len(s) <= Len(t) /\ s = SubSeq(t, 1, Len(s))

\* the session runs of _infer's run r, and those of one model among them
RunCalls(r) == SelectSeq(calls, LAMBDA c : c.run = r)

ModelCalls(r, model) == SelectSeq(RunCalls(r), LAMBDA c : c.model = model)

ModelsOf(cs) == [k \in 1 .. Len(cs) |-> cs[k].model]

\* duration prediction, text encoding, n vector estimations, vocoding
PipelineOrder(n) ==
    <<"duration_predictor", "text_encoder">> \o [k \in 1 .. n |-> "vector_estimator"]
        \o <<"vocoder">>

InferRunning == pc \in {"duration", "encode", "denoise", "infer_ret"}

InferSucceeded == pc = "infer_ret" /\ infer_result.ok

InferFailed == pc = "infer_ret" /\ ~infer_result.ok

\* C1: the session runs of every _infer run are, in this order, one
\* duration prediction, one text encoding, the vector estimations and one
\* vocoding: at any moment a prefix of that sequence (so no stage starts
\* before the one before it returned), and the whole of it, every run
\* having returned its output, once _infer has succeeded.
C1_EngineOrder ==
    /\ \A r \in 1 .. MaxParas + 1 :
          IsPrefix(ModelsOf(RunCalls(r)), PipelineOrder(total_step))
    /\ InferSucceeded =>
          /\ ModelsOf(RunCalls(RunNo)) = PipelineOrder(total_step)
          /\ \A k \in 1 .. Len(calls) : calls[k].ok

\* a run of _infer with two denoising steps has succeeded, on the second chunk
C1_Witness ==
    /\ InferSucceeded
    /\ mode = "call"
    /\ RunNo = 2
    /\ total_step = 2
    /\ Len(RunCalls(2)) = 5

\* C2: the successful vector estimations of a run are at most total_step and
\* exactly total_step when _infer succeeds; the k-th estimator run (from 0) is
\* given current_step k and total_step; its latent input is the output of
\* the run before it (the sampled masked latent for the first); the loop's
\* latent is the last output; the vocoder is run on the last output.
C2_DenoisingLoop ==
    InferRunning =>
      /\ Len(est_io) <= total_step
      /\ \A k \in 1 .. Len(ModelCalls(RunNo, "vector_estimator")) :
            /\ ModelCalls(RunNo, "vector_estimator")[k].current_step = k - 1
            /\ ModelCalls(RunNo, "vector_estimator")[k].total_step = total_step
      /\ \A k \in 1 .. Len(est_io) :
            est_io[k].noisy_latent =
               IF k = 1 THEN noisy_latent ELSE est_io[k - 1].denoised_latent
      /\ (pc = "denoise" /\ est_io # <<>>) => xt = est_io[Len(est_io)].denoised_latent
      /\ InferSucceeded =>
            /\ Len(est_io) = total_step
            /\ Len(ModelCalls(RunNo, "vector_estimator")) = total_step
            /\ total_step > 0 => vocoder_in = est_io[total_step].denoised_latent

\* two estimator runs whose outputs differ from their inputs, then the vocoder
C2_Witness ==
    /\ InferSucceeded
    /\ total_step = 2
    /\ Len(est_io) = 2
    /\ est_io[1].denoised_latent # est_io[1].noisy_latent
    /\ est_io[2].denoised_latent # est_io[1].denoised_latent
    /\ vocoder_in = est_io[2].denoised_latent

\* C3: with total_step = 0 no vector estimation is run, and when _infer
\* succeeds the vocoder was run on the latent sample_noisy_latent returned
\* and one waveform per item is returned.
C3_ZeroSteps ==
    (InferRunning /\ total_step = 0) =>
      /\ est_io = <<>>
      /\ ModelCalls(RunNo, "vector_estimator") = <<>>
      /\ InferSucceeded =>
            /\ vocoder_in = noisy_latent
            /\ Len(infer_result.wavs) = Len(text_list)
            /\ Len(infer_result.durs) = Len(text_list)

\* _infer succeeded with total_step = 0 on a latent that is not all zero
C3_Witness ==
    /\ InferSucceeded
    /\ total_step = 0
    /\ \E b \in DOMAIN noisy_latent : \E d \in DOMAIN noisy_latent[b] :
          \E t \in DOMAIN noisy_latent[b][d] : noisy_latent[b][d][t] # 0
    /\ infer_result.wavs[1] # <<>>

\* C4: a session run that failed is the last session run of the operation;
\* once _infer has failed no session is run any more; the operation then
\* returns an error that carries no waveform and no duration, also when
\* earlier chunks of call were synthesized.
C4_FailFast ==
    /\ [](/\ \A k \in 1 .. Len(calls) : ~calls[k].ok => k = Len(calls)
          /\ pc = "done" =>
                /\ result.kind = "err" <=> ~infer_result.ok
                /\ result.kind = "err" => DOMAIN result = {"kind", "err"})
    /\ [][(InferFailed \/ (pc = "done" /\ result.kind = "err")) =>
            (calls' = calls /\ pc' = "done" /\ result'.kind = "err")]_vars

\* call failed in the vector estimator of its second chunk
C4_Witness ==
    /\ pc = "done"
    /\ mode = "call"
    /\ result.kind = "err"
    /\ Len(runs) = 1
    /\ runs[1].wav # <<>>
    /\ calls[Len(calls)].model = "vector_estimator"
    /\ ~calls[Len(calls)].ok
    /\ calls[Len(calls)].run = 2

\* the number of whole samples in x seconds, and x seconds rounded to samples
WholeSamples(x, sample_rate) == (x.n * sample_rate) \div x.d

\* x rounded to the nearest integer, halves away from zero
Round(x) == (2 * x.n + x.d) \div (2 * x.d)

RoundedSamples(x, sample_rate) == Round(RMulInt(x, sample_rate))

\* item i's waveform is the first Min(true_len, per_item_len) samples of the
\* i-th segment of per_item_len samples of the flat buffer
IsSlice(w, flat, i, per_item_len, true_len) ==
    /\ Len(w) = Min(true_len, per_item_len)
    /\ \A k \in 1 .. Len(w) : w[k] = flat[(i - 1) * per_item_len + k]

\* C5 (amended): when _infer succeeds, item i's waveform is the slice of the
\* vocoder's flat buffer from i * per_item_len to i * per_item_len +
\* min(true_len_i, per_item_len), with per_item_len the buffer length
\* divided by the batch size and true_len_i the integer part of
\* sample_rate * duration_i (truncation, not rounding).
C5_Slicing ==
    InferSucceeded =>
      \A i \in 1 .. Len(text_list) :
         IsSlice(infer_result.wavs[i], wav_flat, i, Len(wav_flat) \div Len(text_list),
                 WholeSamples(infer_result.durs[i], cfgs.sample_rate))

\* C5 as claimed: true_len_i = round(sample_rate * duration_i)
C5_SlicingRounded ==
    InferSucceeded =>
      \A i \in 1 .. Len(text_list) :
         IsSlice(infer_result.wavs[i], wav_flat, i, Len(wav_flat) \div Len(text_list),
                 RoundedSamples(infer_result.durs[i], cfgs.sample_rate))

\* two items of 1.5 samples each in a buffer of two segments of 2 samples:
\* each waveform is the first sample of its segment
C5_Witness ==
    /\ InferSucceeded
    /\ Len(text_list) = 2
    /\ Len(wav_flat) = 4
    /\ \A i \in 1 .. 2 :
          /\ RMulInt(duration[i], cfgs.sample_rate).d # 1
          /\ Len(infer_result.wavs[i]) = 1
    /\ infer_result.wavs[2][1] = wav_flat[3]

RECURSIVE Joined(_, _)
\* w_1 ++ S ++ w_2 ++ S ++ ... ++ w_n
Joined(ws, S) ==
    IF ws = <<>> THEN <<>>
    ELSE IF Len(ws) = 1 THEN ws[1]
         ELSE Joined(SubSeq(ws, 1, Len(ws) - 1), S) \o S \o ws[Len(ws)]

RECURSIVE RSum(_)
RSum(ds) == IF ds = <<>> THEN RZero ELSE RAdd(Head(ds), RSum(Tail(ds)))

Zeros(n) == [j \in 1 .. n |-> ZeroSample]

CallSucceeded == pc = "done" /\ mode = "call" /\ result.kind = "ok"

\* C6: when call succeeds, _infer was run once on every chunk of the text,
\* in order, and the audio returned is w_1 ++ S ++ w_2 ++ ... ++ w_n with
\* w_k the waveform _infer returned for chunk k and S the block of the whole
\* samples of silence_duration * sample_rate zeros.
C6_CallAudio ==
    CallSucceeded =>
      /\ Len(runs) = Len(chunk_text(arg_text, None))
      /\ \A k \in 1 .. Len(runs) :
            /\ runs[k].text_list = <<chunk_text(arg_text, None)[k]>>
            /\ \A j \in 1 .. Len(runs[k].wav) : runs[k].wav[j].run = k
      /\ result.wav = Joined([k \in 1 .. Len(runs) |-> runs[k].wav],
                             Zeros(WholeSamples(silence_duration, cfgs.sample_rate)))

\* three chunks with audio, with a sample of silence between them
C6_Witness ==
    /\ CallSucceeded
    /\ Len(runs) = 3
    /\ \A k \in 1 .. 3 : runs[k].wav # <<>>
    /\ WholeSamples(silence_duration, cfgs.sample_rate) = 1
    /\ Len(result.wav) = Len(runs[1].wav) + Len(runs[2].wav) + Len(runs[3].wav) + 2

\* C7: when call succeeds over n chunks, the duration returned is the sum of
\* the n durations _infer returned plus (n - 1) * silence_duration.
C7_CallDuration ==
    CallSucceeded =>
      result.dur = RAdd(RSum([k \in 1 .. Len(runs) |-> runs[k].dur]),
                        RMulInt(silence_duration, Len(runs) - 1))

\* three chunks of positive durations and a positive silence_duration
C7_Witness ==
    /\ CallSucceeded
    /\ Len(runs) = 3
    /\ silence_duration # RZero
    /\ \A k \in 1 .. 3 : runs[k].dur # RZero
    /\ runs[1].dur # runs[2].dur

\* C8: batch runs _infer once, on the texts it was given, unchunked; when it
\* succeeds it returns one waveform and one duration per text, item i being
\* the i-th duration the predictor returned (divided by speed) and samples
\* of the i-th segment of the vocoder's buffer.
C8_BatchOnce ==
    (mode = "batch" /\ pc # "idle") =>
      /\ text_list = arg_text
      /\ Len(text_ids) = Len(arg_text)
      /\ \A k \in 1 .. Len(calls) : calls[k].run = 1
      /\ Len(ModelCalls(1, "duration_predictor")) <= 1
      /\ Len(ModelCalls(1, "vocoder")) <= 1
      /\ (pc = "done" /\ result.kind = "ok") =>
            /\ Len(ModelCalls(1, "duration_predictor")) = 1
            /\ Len(ModelCalls(1, "vocoder")) = 1
            /\ Len(result.wavs) = Len(arg_text)
            /\ Len(result.durs) = Len(arg_text)
            /\ \A i \in 1 .. Len(arg_text) :
                  /\ result.durs[i] = duration[i]
                  /\ \A j \in 1 .. Len(result.wavs[i]) :
                        (result.wavs[i][j].idx - 1) \div (Len(wav_flat) \div Len(arg_text))
                           = i - 1

\* batch succeeded on two texts, one of them of two paragraphs, with
\* different durations and audio for both
C8_Witness ==
    /\ pc = "done"
    /\ mode = "batch"
    /\ result.kind = "ok"
    /\ Len(arg_text) = 2
    /\ Len(chunk_text(arg_text[2], None)) = 2
    /\ result.durs[1] # result.durs[2]
    /\ result.wavs[1] # <<>>
    /\ result.wavs[2] # <<>>

(***************************************************************************)
(* Properties of sample_noisy_latent.                                      *)
(***************************************************************************)
\* C9: the mask sample_noisy_latent returns has one row per item, and in
\* row i the value at t (from 0) is 1 when t < ceil(samples_i / chunk_size),
\* that is when t * chunk_size < samples_i, and 0 otherwise, with samples_i
\* the whole samples of duration_i and chunk_size = base_chunk_size *
\* chunk_compress_factor.
C9_LatentMask ==
    fn_out.done =>
      /\ Len(fn_out.out.mask) = Len(fn_in.duration)
      /\ \A i \in 1 .. Len(fn_in.duration) :
            /\ Len(fn_out.out.mask[i]) = 1
            /\ \A t \in 1 .. Len(fn_out.out.mask[i][1]) :
                  fn_out.out.mask[i][1][t] =
                     IF (t - 1) * (cfgs.base_chunk_size * cfgs.chunk_compress_factor)
                           < WholeSamples(fn_in.duration[i], cfgs.sample_rate)
                     THEN 1 ELSE 0

\* two items: the mask of the shorter one is a one followed by zeros, and
\* its samples do not fill its last chunk
C9_Witness ==
    /\ fn_out.done
    /\ Len(fn_in.duration) = 2
    /\ Len(fn_out.out.mask[1][1]) >= 2
    /\ fn_out.out.mask[1][1][1] = 1
    /\ fn_out.out.mask[1][1][Len(fn_out.out.mask[1][1])] = 0
    /\ WholeSamples(fn_in.duration[1], cfgs.sample_rate)
          % (cfgs.base_chunk_size * cfgs.chunk_compress_factor) # 0

\* C10: the latent sample_noisy_latent returns is 0 at every (b, d, t) whose
\* mask value mask[b, 0, t] is 0, in every channel d.
C10_MaskedZero ==
    fn_out.done =>
      \A b \in DOMAIN fn_out.out.latent :
         \A d \in DOMAIN fn_out.out.latent[b] :
            \A t \in DOMAIN fn_out.out.latent[b][d] :
               fn_out.out.mask[b][1][t] = 0 => fn_out.out.latent[b][d][t] = 0

\* a latent of two channels with a masked position in the second item and
\* noise at an unmasked position of it
C10_Witness ==
    /\ fn_out.done
    /\ Len(fn_out.out.latent) = 2
    /\ Len(fn_out.out.latent[2]) = 2
    /\ \E t \in DOMAIN fn_out.out.latent[2][2] : fn_out.out.mask[2][1][t] = 0
    /\ \E t \in DOMAIN fn_out.out.latent[2][2] : fn_out.out.latent[2][2][t] # 0

\* the tensor x has the shape (B, D, T)
HasShape(x, B, D, T) ==
    /\ Len(x) = B
    /\ \A b \in 1 .. B :
          /\ Len(x[b]) = D
          /\ \A d \in 1 .. D : Len(x[b][d]) = T

\* T = ceil(m / c), for m >= 0 and c > 0, without a division
IsCeilDiv(T, m, c) == T >= 0 /\ (T - 1) * c < m /\ m <= T * c

\* the largest of the sample counts (0 for no item)
MaxSamples(counts) == IF counts = <<>> THEN 0 ELSE SeqMax(counts)

\* (latent, mask) have the shapes (B, latent_dim * chunk_compress_factor, T)
\* and (B, 1, T) for T = ceil(max(counts) / chunk_size), and the rows of the
\* items of the largest count are all ones
LatentShaped(out, counts) ==
    \E T \in 0 .. MaxSamples(counts) :
        /\ IsCeilDiv(T, MaxSamples(counts),
                     cfgs.base_chunk_size * cfgs.chunk_compress_factor)
        /\ HasShape(out.latent, Len(counts),
                    cfgs.latent_dim * cfgs.chunk_compress_factor, T)
        /\ HasShape(out.mask, Len(counts), 1, T)
        /\ \A i \in 1 .. Len(counts) :
              counts[i] = MaxSamples(counts) =>
                 \A t \in 1 .. T : out.mask[i][1][t] = 1

\* C11 (amended): sample_noisy_latent returns a latent of shape
\* (B, latent_dim * chunk_compress_factor, T) and a mask of shape (B, 1, T),
\* B the number of durations and T = ceil(max_i samples_i / chunk_size) with
\* samples_i the integer part of duration_i * sample_rate (truncation, not
\* rounding); the mask row of an item of the maximum duration is all ones.
C11_LatentShape ==
    fn_out.done =>
      LatentShaped(fn_out.out,
                   [i \in 1 .. Len(fn_in.duration) |->
                      WholeSamples(fn_in.duration[i], cfgs.sample_rate)])

\* C11 as claimed: samples_i = round(duration_i * sample_rate)
C11_LatentShapeRounded ==
    fn_out.done =>
      LatentShaped(fn_out.out,
                   [i \in 1 .. Len(fn_in.duration) |->
                      RoundedSamples(fn_in.duration[i], cfgs.sample_rate)])

\* two items, the second the longest with 4.5 samples: T = 2 (4 whole
\* samples in chunks of 2) and its mask row is all ones, the first's is not
C11_Witness ==
    /\ fn_out.done
    /\ Len(fn_in.duration) = 2
    /\ RMulInt(fn_in.duration[2], cfgs.sample_rate) = Rat(9, 2)
    /\ Len(fn_out.out.latent[2]) = 2
    /\ fn_out.out.mask[2][1] = <<1, 1>>
    /\ fn_out.out.mask[1][1] = <<1, 0>>

\* the whole samples of the raw duration d divided by speed
AdjustedSamples(d) == (d.n * cfgs.sample_rate) \div (d.d * speed)

\* C12: once the duration predictor has returned, every duration of _infer
\* is the raw duration divided by speed (duration * speed = raw: half of it
\* for speed = 2, the raw one for speed = 1); the latent and its mask are
\* sized from the adjusted durations; and when _infer succeeds it returns
\* the adjusted durations and waveforms truncated to their whole samples.
C12_SpeedAdjusted ==
    /\ pc \in {"encode", "denoise"} \/ InferSucceeded =>
          /\ Len(duration) = Len(raw_duration)
          /\ \A i \in 1 .. Len(duration) :
                RMulInt(duration[i], speed) = raw_duration[i]
    /\ pc = "denoise" \/ InferSucceeded =>
          LatentShaped([latent |-> noisy_latent, mask |-> latent_mask],
                       [i \in 1 .. Len(raw_duration) |->
                          AdjustedSamples(raw_duration[i])])
    /\ InferSucceeded =>
          /\ infer_result.durs = duration
          /\ \A i \in 1 .. Len(raw_duration) :
                Len(infer_result.wavs[i]) =
                   Min(AdjustedSamples(raw_duration[i]),
                       Len(wav_flat) \div Len(raw_duration))

\* speed = 2 and a raw duration of 1 s at 3 samples per second: the
\* duration returned is 1/2 s, the latent has 1 step (the raw duration
\* would give 2) and the waveform 1 sample (the raw duration would give 3)
C12_Witness ==
    /\ InferSucceeded
    /\ speed = 2
    /\ cfgs.sample_rate = 3
    /\ raw_duration = <<Rat(1, 1)>>
    /\ infer_result.durs = <<Rat(1, 2)>>
    /\ Len(noisy_latent[1][1]) = 1
    /\ Len(wav_flat) = 4
    /\ Len(infer_result.wavs[1]) = 1

(***************************************************************************)
(* Properties of the tokenizer.                                            *)
(***************************************************************************)
\* n_i: the character count of the normalized i-th text
NormalizedCount(texts, i) == Len(preprocess_text(texts[i]))

\* L: the largest n_i of the batch (0 for no text)
BatchWidth(texts) ==
    IF texts = <<>> THEN 0
    ELSE CHOOSE L \in {NormalizedCount(texts, i) : i \in 1 .. Len(texts)} :
            \A i \in 1 .. Len(texts) : NormalizedCount(texts, i) <= L

\* C13: for every batch of texts, row i of the tokenizer's mask has width L,
\* ones at the positions 0 .. n_i - 1 and zeros at n_i .. L - 1 (so exactly
\* n_i ones), and every row of ids has width L.
C13_TextMask ==
    fn_out.done =>
      /\ Len(fn_out.out.text_mask) = Len(fn_in.text_list)
      /\ Len(fn_out.out.text_ids) = Len(fn_in.text_list)
      /\ \A i \in 1 .. Len(fn_in.text_list) :
            /\ Len(fn_out.out.text_ids[i]) = BatchWidth(fn_in.text_list)
            /\ Len(fn_out.out.text_mask[i]) = 1
            /\ Len(fn_out.out.text_mask[i][1]) = BatchWidth(fn_in.text_list)
            /\ \A j \in 1 .. BatchWidth(fn_in.text_list) :
                  fn_out.out.text_mask[i][1][j] =
                     IF j <= NormalizedCount(fn_in.text_list, i) THEN 1 ELSE 0
            /\ Cardinality({j \in 1 .. BatchWidth(fn_in.text_list) :
                               fn_out.out.text_mask[i][1][j] = 1})
                  = NormalizedCount(fn_in.text_list, i)

\* "a" (normalized "a.", 2 characters) beside "a ,b" (normalized "a,b.", 4)
C13_Witness ==
    /\ fn_out.done
    /\ fn_in.text_list = << <<"a">>, <<"a", " ", ",", "b">> >>
    /\ fn_out.out.text_mask[1][1] = <<1, 1, 0, 0>>
    /\ fn_out.out.text_mask[2][1] = <<1, 1, 1, 1>>

\* C14: the id at a valid position j < n_i is table[code point] when the
\* code point of the character is below the length of the table and -1
\* otherwise; the id at every padded position j >= n_i is 0.
C14_TextIds ==
    fn_out.done =>
      \A i \in 1 .. Len(fn_in.text_list) :
         \A j \in 1 .. Len(fn_out.out.text_ids[i]) :
            fn_out.out.text_ids[i][j] =
               IF j <= NormalizedCount(fn_in.text_list, i)
               THEN IF CodePoint(preprocess_text(fn_in.text_list[i])[j]) < Len(indexer)
                    THEN indexer[CodePoint(preprocess_text(fn_in.text_list[i])[j]) + 1]
                    ELSE -1
               ELSE 0

\* "Mx?" beside "a": M and ? are in the table, x (120) is not, and the row
\* of "a." is padded with one 0
C14_Witness ==
    /\ fn_out.done
    /\ fn_in.text_list = << <<"M", "x", "?">>, <<"a">> >>
    /\ fn_out.out.text_ids[1] = <<indexer[78], -1, indexer[64]>>
    /\ fn_out.out.text_ids[2] = <<indexer[98], indexer[47], 0>>

(***************************************************************************)
(* Properties of chunk_text.                                               *)
(***************************************************************************)
HasWhitespace(s) == \E j \in 1 .. Len(s) : IsWhitespace(s[j])

\* C15: every chunk chunk_text returns is at most max_len long, except a
\* chunk that is one single word (no whitespace in it) longer than max_len.
C15_ChunkLength ==
    fn_out.done =>
      \A k \in 1 .. Len(fn_out.out) :
         \/ Len(fn_out.out[k]) <= fn_in.max_len
         \/ ~HasWhitespace(fn_out.out[k])

RECURSIVE ContentWords(_, _)
\* the words of s: its maximal runs of characters that are neither
\* whitespace nor commas (word is the run being read)
ContentWords(s, word) ==
    IF s = <<>> THEN (IF word = <<>> THEN <<>> ELSE <<word>>)
    ELSE IF IsWhitespace(Head(s)) \/ Head(s) = ","
         THEN (IF word = <<>> THEN <<>> ELSE <<word>>) \o ContentWords(Tail(s), <<>>)
         ELSE ContentWords(Tail(s), Append(word, Head(s)))

\* the words of the chunks, chunk after chunk
ChunkWords(cs) == Flatten([k \in 1 .. Len(cs) |-> ContentWords(cs[k], <<>>)])

Occurrences(ws, w) == Cardinality({k \in 1 .. Len(ws) : ws[k] = w})

\* ws and vs hold the same words, each as many times
SameWords(ws, vs) ==
    /\ Len(ws) = Len(vs)
    /\ \A k \in 1 .. Len(ws) : Occurrences(ws, ws[k]) = Occurrences(vs, ws[k])

\* C16: the words of the input appear in the chunks in the order they have
\* in the input: when the chunks hold the words of the input, they hold them
\* in the same sequence.
C16_ChunkOrder ==
    fn_out.done =>
      (SameWords(ChunkWords(fn_out.out), ContentWords(fn_in.text, <<>>)) =>
         ChunkWords(fn_out.out) = ContentWords(fn_in.text, <<>>))

\* the characters of s that are not whitespace, in order
NonWhitespace(s) == SelectSeq(s, LAMBDA c : ~IsWhitespace(c))

\* C17: the non-whitespace characters of the chunks, concatenated in order,
\* are the non-whitespace characters of the input, commas included.
C17_NothingDropped ==
    fn_out.done =>
      NonWhitespace(Flatten(fn_out.out)) = NonWhitespace(fn_in.text)

\* the non-empty trimmed paragraphs of text
Paragraphs(text) ==
    SelectSeq([k \in 1 .. Len(SplitParagraphs(Trim(text), 1, 1)) |->
                  Trim(SplitParagraphs(Trim(text), 1, 1)[k])],
              LAMBDA p : p # <<>>)

Sentences(para) ==
    SelectSeq([k \in 1 .. Len(split_sentences(para)) |-> Trim(split_sentences(para)[k])],
              LAMBDA t : t # <<>>)

RECURSIVE GreedyPack(_, _, _)
\* the sentences ss packed after the chunk cur being filled: a sentence
\* opens a new chunk only when cur, one space and the sentence exceed max_len
GreedyPack(ss, cur, max_len) ==
    IF ss = <<>> THEN (IF cur = <<>> THEN <<>> ELSE <<cur>>)
    ELSE IF cur = <<>> THEN GreedyPack(Tail(ss), Head(ss), max_len)
    ELSE IF Len(cur) + 1 + Len(Head(ss)) > max_len
         THEN <<cur>> \o GreedyPack(Tail(ss), Head(ss), max_len)
         ELSE GreedyPack(Tail(ss), cur \o <<" ">> \o Head(ss), max_len)

\* text is one paragraph longer than max_len whose sentences all fit
LongParagraphOfShortSentences(text, max_len) ==
    /\ \A j \in 1 .. Len(Trim(text)) : Trim(text)[j] # "\n"
    /\ Len(Trim(text)) > max_len
    /\ \A k \in 1 .. Len(Sentences(Trim(text))) :
          Len(Sentences(Trim(text))[k]) <= max_len

C20_Idempotent ==
    (fn_out.done /\ fn_out.pass = 2) => fn_out.out = fn_out.first

\* the characters that end a text without a period being added
TerminalChars ==
    {".", "!", "?", ";", ":", ",", "'", "\"", "U+201C", "U+201D", "U+2018",
     "U+2019", ")", "]", "}", "U+2026", "U+3002"}

AllWhitespace(s) == \A j \in 1 .. Len(s) : IsWhitespace(s[j])

\* the characters that leave nothing behind: whitespace, the characters
\* that are removed and the characters that are replaced by a space
VanishingChars ==
    {" ", "\n", "\t", "U+1F600", "U+2665", "U+00A9", "\\", "U+0303", "U+0304",
     "U+0308", "U+00AF", "_", "[", "]", "|", "/", "#", "U+2192"}

\* C21 as stated: the result for a non-empty text is empty only if the text
\* is all whitespace, and otherwise ends with a terminal character.
C21_EmptyOnlyIfWhitespace ==
    (fn_out.done /\ fn_out.pass = 1 /\ fn_in.text # <<>>) =>
      /\ fn_out.out = <<>> => AllWhitespace(fn_in.text)
      /\ fn_out.out # <<>> => fn_out.out[Len(fn_out.out)] \in TerminalChars

\* C21: the result is empty exactly when the text holds nothing but
\* whitespace and characters that are removed or replaced by a space (the
\* empty text included); otherwise it ends with a terminal character, and
\* it is the cleaned text followed by one "." exactly when the cleaned text
\* does not end with a terminal character, the cleaned text itself when it
\* does.
C21_TerminalPunctuation ==
    (fn_out.done /\ fn_out.pass = 1) =>
      /\ fn_out.out = <<>> <=>
            \A j \in 1 .. Len(fn_in.text) : fn_in.text[j] \in VanishingChars
      /\ fn_out.out # <<>> => fn_out.out[Len(fn_out.out)] \in TerminalChars
      /\ fn_out.out # <<>> =>
            IF CleanText(fn_in.text)[Len(CleanText(fn_in.text))] \in TerminalChars
            THEN fn_out.out = CleanText(fn_in.text)
            ELSE fn_out.out = Append(CleanText(fn_in.text), ".")

\* a text that does not end with a terminal character got its period
C21_Witness ==
    /\ fn_out.done
    /\ fn_out.pass = 1
    /\ fn_in.text # <<>>
    /\ fn_in.text[Len(fn_in.text)] \notin TerminalChars
    /\ fn_out.out = Append(CleanText(fn_in.text), ".")

(***************************************************************************)
(* Properties of voice-style loading.                                      *)
(***************************************************************************)
\* the number of values a source must hold in a component
StyleVolume(dims) == dims[2] * dims[3]

\* some source does not hold exactly the volume of the first source's dims
StyleMisfit(sources) ==
    \E i \in 1 .. Len(sources) :
       \/ Len(StyleValues(sources[i].style_ttl.data)) # StyleVolume(sources[1].style_ttl.dims)
       \/ Len(StyleValues(sources[i].style_dp.data)) # StyleVolume(sources[1].style_dp.dims)

\* C22: when the sources can be read and some source holds too few or too
\* many values in style_ttl or style_dp for the inner dims of the first
\* source, loading fails with a ShapeMismatch error: no style is returned
\* and the thread does not panic.
C22_ShapeMismatch ==
    (fn_out.done /\ fn_in.readable /\ StyleMisfit(fn_in.sources)) =>
      (fn_out.out.kind = "err" /\ fn_out.out.error = "ShapeMismatch")

(***************************************************************************)
(* Properties of engine loading.                                           *)
(***************************************************************************)
\* C23: loading an engine with use_gpu = true fails with a Config error
\* before any artifact is read, parsed or turned into a session, and never
\* returns an engine.
C23_GpuRejected ==
    (fn_out.done /\ fn_in.use_gpu) =>
      /\ fn_out.out.kind = "err"
      /\ fn_out.out.error = "Config"
      /\ fn_out.out.log = <<>>

(***************************************************************************)
(* Properties of sanitize_filename.                                        *)
(***************************************************************************)
AsciiAlphanumerics ==
    {"a", "b", "c", "d", "e", "f", "g", "h", "i", "l", "m", "n", "o", "p", "r", "s",
     "t", "x", "D", "H", "M", "T", "W", "1"}

\* C24: sanitize_filename returns a string of min(length(text), max_len)
\* characters, the i-th being the i-th character of text when that is an
\* ASCII letter or digit and "_" otherwise; "Hello World! @#$" with max_len
\* 10 gives "Hello_Worl".
C24_Sanitized ==
    fn_out.done =>
      /\ fn_out.out.kind = "ok"
      /\ Len(fn_out.out.name) = Min(Len(fn_in.text), fn_in.max_len)
      /\ \A j \in 1 .. Len(fn_out.out.name) :
            fn_out.out.name[j] =
              IF fn_in.text[j] \in AsciiAlphanumerics THEN fn_in.text[j] ELSE "_"
      /\ (fn_in.text = TestName /\ fn_in.max_len = 10) =>
            fn_out.out.name = <<"H", "e", "l", "l", "o", "_", "W", "o", "r", "l">>

(***************************************************************************)
(* Properties of split_sentences.                                          *)
(***************************************************************************)
\* the positions of a "." "!" or "?" that is followed by whitespace
PunctuationStops(text) ==
    {i \in 1 .. Len(text) - 1 : text[i] \in {".", "!", "?"} /\ IsWhitespace(text[i + 1])}

\* the last position of the whitespace that follows the stop at i
StopEnd(text, i) ==
    CHOOSE e \in i + 1 .. Len(text) :
       /\ \A j \in i + 1 .. e : IsWhitespace(text[j])
       /\ e = Len(text) \/ ~IsWhitespace(text[e + 1])

\* the positions at which the sentences end, as lengths of text
CutPoints(sentences) ==
    {Len(Flatten(SubSeq(sentences, 1, k))) : k \in 1 .. Len(sentences)}

\* the last cut point before position i, 0 when there is none
CutBefore(sentences, i) ==
    LET before == {c \in CutPoints(sentences) : c < i}
    IN IF before = {} THEN 0 ELSE CHOOSE c \in before : \A d \in before : d <= c

\* the text from position from + 1 to the stop at i, trimmed, with the
\* character of the stop, ends with a listed abbreviation
EndsWithAbbreviation(text, from, i) ==
    \E k \in 1 .. Len(ABBREVIATIONS) :
       EndsWith(Append(Trim(SubSeq(text, from + 1, i - 1)), text[i]), ABBREVIATIONS[k])

\* C25: the sentences concatenated are the text; a sentence ends after a
\* stop (a "." "!" or "?" and the whitespace after it) exactly when the text
\* since the previous sentence end, trimmed, with the stop's character does
\* not end with a listed abbreviation (a stop that ends the text makes no
\* difference to the sentences); and a sentence ends nowhere else but at
\* the end of the text.
C25_Abbreviations ==
    fn_out.done =>
      /\ Flatten(fn_out.out) = fn_in.text
      /\ \A i \in PunctuationStops(fn_in.text) :
            StopEnd(fn_in.text, i) < Len(fn_in.text) =>
              (StopEnd(fn_in.text, i) \in CutPoints(fn_out.out)
                 <=> ~EndsWithAbbreviation(fn_in.text, CutBefore(fn_out.out, i), i))
      /\ \A c \in CutPoints(fn_out.out) :
            \/ c = Len(fn_in.text)
            \/ \E i \in PunctuationStops(fn_in.text) : StopEnd(fn_in.text, i) = c

\* a text was split after one stop and not after another, an abbreviation
C25_Witness ==
    /\ fn_out.done
    /\ Len(fn_out.out) >= 2
    /\ \E i \in PunctuationStops(fn_in.text) :
          /\ StopEnd(fn_in.text, i) \notin CutPoints(fn_out.out)
          /\ StopEnd(fn_in.text, i) < Len(fn_in.text)

(***************************************************************************)
(* Properties of batch inference on no text.                               *)
(***************************************************************************)
\* C29: batch on an empty list of texts returns to its caller with a
\* result, empty arrays or an error: the thread does not panic.
C29_EmptyBatchReturns ==
    (mode = "batch" /\ arg_text = <<>>) => pc # "panic"

(***************************************************************************)
(* Properties of the plugin.                                               *)
(***************************************************************************)
\* thread p is in the synthesis of a speak or speak_batch: the engine has
\* been or is about to be invoked
Synthesizing(p) == cmd[p].name \in Synths /\ cmd[p].pc = "run"

\* thread p waits for, or is about to take, the mutex l
Wants(p, l) ==
    \/ cmd[p].pc = "store" /\ LockOrder(cmd[p].name)[1] = l
    \/ cmd[p].pc = "lock" /\ LockOrder(cmd[p].name)[cmd[p].held + 1] = l

\* C26: a thread in a synthesis holds the engine and the style mutex from
\* before its first engine invocation to its last, so no two threads are in
\* a synthesis at once, and the engine and the style stay the ones the
\* command found: no initialize, load_engine, set_voice or load_voice
\* replaces them meanwhile.
C26_ExclusiveSynthesis ==
    /\ \A p \in Procs :
          Synthesizing(p) =>
            /\ lock_owner["engine"] = p
            /\ lock_owner["style"] = p
            /\ engine = cmd[p].saw_engine
            /\ style = cmd[p].saw_style
    /\ \A p, q \in Procs : (Synthesizing(p) /\ Synthesizing(q)) => p = q

\* a synthesis has invoked the engine while another speak and a load of an
\* engine wait for the engine mutex (one or the other, on the second thread)
C26_Witness ==
    \E p, q \in Procs :
       /\ Synthesizing(p)
       /\ cmd[p].n >= 1
       /\ p # q
       /\ Wants(q, "engine")
       /\ cmd[q].name \in Synths \cup EngineLoads

\* C27: the commands cannot deadlock: a thread that holds the style mutex
\* and wants the engine mutex does not exist (both are taken engine
\* first, and a command that takes one only never waits for the other), and
\* every command that was issued completes.
C27_NoDeadlock ==
    /\ [](\A p \in Procs : ~(lock_owner["style"] = p /\ Wants(p, "engine")))
    /\ \A p \in Procs : (cmd[p].pc # "idle") ~> (cmd[p].pc = "idle")

\* a thread holds both mutexes while the other waits for one of them
C27_Witness ==
    \E p, q \in Procs :
       /\ p # q
       /\ lock_owner["engine"] = p
       /\ lock_owner["style"] = p
       /\ Wants(q, "engine") \/ Wants(q, "style")

\* thread p ran speak or speak_batch to its end
Spoke(p) == cmd[p].name \in Synths /\ cmd[p].pc = "idle"

\* C28: speak and speak_batch invoke the engine only after a load of an
\* engine (initialize or load_engine) and a load of a voice (set_voice or
\* load_voice) have both returned Ok; a command that found one of them
\* missing returned a State error, the one of the engine when the engine
\* was missing, with no engine invocation made.
C28_NeedsEngineAndVoice ==
    \A p \in Procs :
       /\ Synthesizing(p) => loaded = Locks
       /\ (Spoke(p) /\ loaded # Locks) =>
             /\ cmd[p].result.kind = "err"
             /\ cmd[p].result.err[1] = "State"
             /\ cmd[p].n = 0
             /\ "engine" \notin loaded => cmd[p].result.err = <<"State", "engine">>

\* what holds of C28, of what is stored instead of what a load returned:
\* speak and speak_batch invoke the engine only when an engine and a style
\* are stored, and return the State error of the first missing one
\* otherwise
NeedsStoredEngineAndStyle ==
    \A p \in Procs :
       /\ Synthesizing(p) => (engine # None /\ style # None)
       /\ (cmd[p].name \in Synths /\ cmd[p].n >= 1) =>
             (cmd[p].saw_engine # None /\ cmd[p].saw_style # None)
       /\ (Spoke(p) /\ (engine = None \/ style = None)) =>
             /\ cmd[p].result.kind = "err"
             /\ cmd[p].result.err[1] = "State"
             /\ cmd[p].n = 0
             /\ engine = None => cmd[p].result.err = <<"State", "engine">>
       /\ (Spoke(p) /\ cmd[p].result = Err(<<"State", "style">>)) =>
             cmd[p].saw_engine # None

=============================================================================
